---- MODULE Spec2Model ----
(***************************************************************************)
(* osm2geojson: conversion of OSM / Overpass elements to shapes.           *)
(*                                                                         *)
(* The module models src/osm2geojson/main.py.  Python dicts are functions  *)
(* whose DOMAIN is the set of keys present ('k' in d  is  k \in DOMAIN d), *)
(* except the tags dict, which is iterated by the code and is therefore a  *)
(* sequence of <<key, value>> pairs in insertion order.  An Optional       *)
(* argument is <<>> for None and <<x>> for a supplied value x.             *)
(*                                                                         *)
(* Three specifications share the operators:                               *)
(*   SpecClassify  calls of is_geometry_polygon,                           *)
(*                 is_geometry_polygon_without_exceptions and way_to_shape *)
(*   SpecAssemble  calls of relation_to_shape on multipolygon relations    *)
(*   Spec          runs of _json2shapes on small documents                 *)
(*                                                                         *)
(* The geometry kernel is shapely >= 2 over GEOS: multi-part geometries    *)
(* are not iterable, and a binary operation with None yields None.         *)
(***************************************************************************)
EXTENDS Integers, Sequences, FiniteSets, TLC

VARIABLES
    node,              \* classifier call: the element passed to is_geometry_polygon
    area_keys,         \* classifier call: Optional area-exception table
    polygon_features,  \* classifier call: Optional rule table
    called,            \* classifier call: the function called, "none" before the call
    verdict,           \* classifier call: its outcome, "pending" before the call
    elements,          \* data['elements'], with the `used` marks the calls leave
    raise_on_failure,  \* strict mode
    topology_errors,   \* the geometry kernel raises on an invalid operand
    assembled,         \* relation call: its result, Pending before the call
    filter_used_refs,  \* conversion run: the filter_used_refs argument
    cursor,            \* conversion run: position of the next element, 0 at the call
    all_shapes,        \* conversion run: the list `shapes` collected so far
    result,            \* conversion run: what _json2shapes returns or raises
    wrapper            \* retry wrapper call: its locals, the requests made and the sleeps

classifier == <<node, area_keys, polygon_features, called, verdict>>
assembler == <<elements, raise_on_failure, topology_errors, assembled>>
run == <<filter_used_refs, cursor, all_shapes, result>>
vars == <<classifier, assembler, run, wrapper>>

(***************************************************************************)
(* Python helpers                                                          *)
(***************************************************************************)
None == <<>>
Some(x) == <<x>>

Has(d, k) == k \in DOMAIN d

\* tags dict, in insertion order
TagKeys(tags) == {tags[n][1] : n \in 1..Len(tags)}
TagValue(tags, k) == tags[CHOOSE n \in 1..Len(tags) : tags[n][1] = k][2]

\* `opt or default` for a list argument: None and [] are both falsy
OrList(opt, default) == IF Len(opt) = 1 /\ Len(opt[1]) > 0 THEN opt[1] ELSE default
\* mutant: only None is replaced by the default
OrDict_none_only(opt, default) == IF Len(opt) = 1 THEN opt[1] ELSE default
\* `opt or default` for a dict argument: None and {} are both falsy
OrDict(opt, default) == IF Len(opt) = 1 /\ DOMAIN opt[1] # {} THEN opt[1] ELSE default

Min(S) == CHOOSE m \in S : \A n \in S : m <= n

(***************************************************************************)
(* Configuration tables                                                    *)
(***************************************************************************)
\* polygon-features.json is loaded at import; these are the entries the
\* tests name: highway whitelist and blacklist, building "all".
_default_polygon_features ==
    << [key |-> "highway", polygon |-> "whitelist", values |-> {"rest_area"}],
       [key |-> "highway", polygon |-> "blacklist", values |-> {"steps"}],
       [key |-> "building", polygon |-> "all"] >>

\* areaKeys.json is loaded at import: tag key -> value -> flag
_default_area_keys == [highway |-> [steps |-> TRUE]]

(***************************************************************************)
(* Polygon classifier                                                      *)
(***************************************************************************)
is_same_coords(a, b) == a.lat = b.lat /\ a.lon = b.lon

\* The loop returns at the FIRST tag (in the dict's order) whose key is in
\* the table, whatever that entry says.
is_exception(el, ak) ==
    LET table == OrDict(ak, _default_area_keys)
        tags  == el.tags
        hits  == {n \in 1..Len(tags) : tags[n][1] \in DOMAIN table}
    IN  IF hits = {} THEN FALSE
        ELSE LET tag   == tags[Min(hits)][1]
                 value == tags[Min(hits)][2]
             IN  value \in DOMAIN table[tag] /\ table[tag][value]

\* A rule at which the loop returns: its key is present and it is an "all"
\* rule, a whitelist rule listing the value, or any blacklist rule.
RuleReturns(rule, tags) ==
    /\ rule.key \in TagKeys(tags)
    /\ \/ rule.polygon = "all"
       \/ rule.polygon = "whitelist" /\ TagValue(tags, rule.key) \in rule.values
       \/ rule.polygon = "blacklist"

\* mutant: an "all" rule is skipped instead of returning True
is_geometry_polygon_without_exceptions_skip_all(el, pf) ==
    LET rules == OrList(pf, _default_polygon_features)
        tags  == el.tags
        at    == {n \in 1..Len(rules) :
                    RuleReturns(rules[n], tags) /\ rules[n].polygon # "all"}
    IN  IF at = {} THEN FALSE
        ELSE LET rule == rules[Min(at)]
             IN  IF rule.polygon = "blacklist"
                 THEN TagValue(tags, rule.key) \notin rule.values
                 ELSE TRUE

is_geometry_polygon_without_exceptions(el, pf) ==
    LET rules == OrList(pf, _default_polygon_features)
        tags  == el.tags
        at    == {n \in 1..Len(rules) : RuleReturns(rules[n], tags)}
    IN  IF at = {} THEN FALSE
        ELSE LET rule == rules[Min(at)]
             IN  IF rule.polygon = "blacklist"
                 THEN TagValue(tags, rule.key) \notin rule.values
                 ELSE TRUE

\* Outcome of a call: "True", "False", or the exception it raises.
Bool(b) == IF b THEN "True" ELSE "False"

\* mutant: type=multipolygon is tested before area=no
is_geometry_polygon_type_first(el, ak, pf) ==
    IF ~Has(el, "tags") THEN "False"
    ELSE LET tags == el.tags IN
    IF "type" \in TagKeys(tags) /\ TagValue(tags, "type") = "multipolygon" THEN "True"
    ELSE IF "area" \in TagKeys(tags) /\ TagValue(tags, "area") = "no" THEN "False"
    ELSE IF "area" \in TagKeys(tags) /\ TagValue(tags, "area") = "yes" THEN "True"
    ELSE IF Has(el, "geometry") /\ Len(el.geometry) = 0 THEN "IndexError"
    ELSE IF Has(el, "geometry")
            /\ ~is_same_coords(el.geometry[1], el.geometry[Len(el.geometry)]) THEN "False"
    ELSE IF Has(el, "nodes") /\ Len(el.nodes) = 0 THEN "IndexError"
    ELSE IF Has(el, "nodes") /\ el.nodes[1] # el.nodes[Len(el.nodes)] THEN "False"
    ELSE IF is_geometry_polygon_without_exceptions(el, pf)
         THEN Bool(~is_exception(el, ak))
         ELSE "False"

\* mutant: every area value other than "no" is taken as "yes"
is_geometry_polygon_area_not_no(el, ak, pf) ==
    IF ~Has(el, "tags") THEN "False"
    ELSE LET tags == el.tags IN
    IF "area" \in TagKeys(tags) /\ TagValue(tags, "area") = "no" THEN "False"
    ELSE IF "area" \in TagKeys(tags) THEN "True"
    ELSE IF "type" \in TagKeys(tags) /\ TagValue(tags, "type") = "multipolygon" THEN "True"
    ELSE IF Has(el, "geometry") /\ Len(el.geometry) = 0 THEN "IndexError"
    ELSE IF Has(el, "geometry")
            /\ ~is_same_coords(el.geometry[1], el.geometry[Len(el.geometry)]) THEN "False"
    ELSE IF Has(el, "nodes") /\ Len(el.nodes) = 0 THEN "IndexError"
    ELSE IF Has(el, "nodes") /\ el.nodes[1] # el.nodes[Len(el.nodes)] THEN "False"
    ELSE IF is_geometry_polygon_without_exceptions(el, pf)
         THEN Bool(~is_exception(el, ak))
         ELSE "False"

is_geometry_polygon(el, ak, pf) ==
    IF ~Has(el, "tags") THEN "False"
    ELSE LET tags == el.tags IN
    IF "area" \in TagKeys(tags) /\ TagValue(tags, "area") = "no" THEN "False"
    ELSE IF "area" \in TagKeys(tags) /\ TagValue(tags, "area") = "yes" THEN "True"
    ELSE IF "type" \in TagKeys(tags) /\ TagValue(tags, "type") = "multipolygon" THEN "True"
    ELSE IF Has(el, "geometry") /\ Len(el.geometry) = 0 THEN "IndexError"
    ELSE IF Has(el, "geometry")
            /\ ~is_same_coords(el.geometry[1], el.geometry[Len(el.geometry)]) THEN "False"
    ELSE IF Has(el, "nodes") /\ Len(el.nodes) = 0 THEN "IndexError"
    ELSE IF Has(el, "nodes") /\ el.nodes[1] # el.nodes[Len(el.nodes)] THEN "False"
    ELSE IF is_geometry_polygon_without_exceptions(el, pf)
         THEN Bool(~is_exception(el, ak))
         ELSE "False"

(***************************************************************************)
(* Geometry kernel (shapely): coordinates are <<lon, lat>> pairs of        *)
(* integers; a ring is a sequence of coordinates whose first and last are  *)
(* equal.                                                                  *)
(***************************************************************************)
Last(q) == q[Len(q)]

\* LinearRing(coords): closed by repeating the first coordinate when needed
CloseRing(coords) == IF coords[1] = Last(coords) THEN coords ELSE Append(coords, coords[1])

\* Polygon(coords) raises ValueError: a ring needs at least 4 coordinates
PolygonRaises(coords) == Len(CloseRing(coords)) < 4

\* twice the signed area of triangle a b c
Orient(a, b, c) == (b[1] - a[1]) * (c[2] - a[2]) - (b[2] - a[2]) * (c[1] - a[1])
Sign(x) == IF x > 0 THEN 1 ELSE IF x < 0 THEN 0 - 1 ELSE 0
Between(lo, x, hi) == (lo <= x /\ x <= hi) \/ (hi <= x /\ x <= lo)
\* c lies on the closed segment a b
OnSegment(a, b, c) ==
    Orient(a, b, c) = 0 /\ Between(a[1], c[1], b[1]) /\ Between(a[2], c[2], b[2])
\* the closed segments a b and c d share a point
SegmentsMeet(a, b, c, d) ==
    \/ /\ Sign(Orient(a, b, c)) * Sign(Orient(a, b, d)) < 0
       /\ Sign(Orient(c, d, a)) * Sign(Orient(c, d, b)) < 0
    \/ OnSegment(a, b, c) \/ OnSegment(a, b, d)
    \/ OnSegment(c, d, a) \/ OnSegment(c, d, b)

\* is_valid of a polygon with this exterior ring: the ring is simple
\* (edges meet only at the vertex shared by consecutive edges)
RingIsValid(ring) ==
    LET n == Len(ring) - 1      \* number of edges; edge k joins ring[k], ring[k+1]
        Adjacent(j, k) == k = j + 1 \/ (j = 1 /\ k = n)
    IN  /\ n >= 3
        /\ \A k \in 1..n : ring[k] # ring[k + 1]
        /\ \A j \in 1..n : \A k \in (j + 1)..n :
             IF Adjacent(j, k)
             THEN LET a == IF k = j + 1 THEN ring[j] ELSE ring[j + 1]
                      b == IF k = j + 1 THEN ring[j + 1] ELSE ring[j]
                      c == IF k = j + 1 THEN ring[k + 1] ELSE ring[k]
                  \* a-b and b-c (sharing b) must not fold back onto each other
                  IN  ~OnSegment(a, b, c) /\ ~OnSegment(b, c, a)
             ELSE ~SegmentsMeet(ring[j], ring[j + 1], ring[k], ring[k + 1])

\* The plane is sampled at the centres of the unit cells <<i, j>>,
\* 0 <= i, j < GridN: a polygonal geometry is the set of cells whose centre
\* it contains, so that union and difference are those of the cell sets.
GridN == 3
Cells == (0..(GridN - 1)) \X (0..(GridN - 1))

\* edge a-b crosses the ray going right from the centre of cell c
Crosses(a, b, c) ==
    LET dy  == b[2] - a[2]
        dx  == b[1] - a[1]
        lhs == 2 * a[1] * dy + (2 * c[2] + 1 - 2 * a[2]) * dx
        rhs == (2 * c[1] + 1) * dy
    IN  /\ (a[2] <= c[2] /\ c[2] < b[2]) \/ (b[2] <= c[2] /\ c[2] < a[2])
        /\ IF dy > 0 THEN lhs > rhs ELSE lhs < rhs

\* interior of the polygon bounded by a ring
RingCells(ring) ==
    {c \in Cells :
        Cardinality({k \in 1..(Len(ring) - 1) : Crosses(ring[k], ring[k + 1], c)}) % 2 = 1}

Reverse(q) == [n \in 1..Len(q) |-> q[Len(q) + 1 - n]]
Drop(q, k) == [n \in 1..(Len(q) - 1) |-> IF n < k THEN q[n] ELSE q[n + 1]]

\* number of line ends at coordinate c
Degree(lines, c) ==
    Cardinality({k \in 1..Len(lines) : lines[k][1] = c})
    + Cardinality({k \in 1..Len(lines) : Last(lines[k]) = c})
LineEnds(line) == {line[1], Last(line)}
\* the two lines joined at their common end c
Join(l1, l2, c) ==
    LET a == IF Last(l1) = c THEN l1 ELSE Reverse(l1)
        b == IF l2[1] = c THEN l2 ELSE Reverse(l2)
    IN  a \o Tail(b)

RECURSIVE linemerge(_)
\* shapely.ops.linemerge: lines are sewn together, whatever their direction,
\* at every coordinate where exactly two line ends meet; the result is the
\* sequence of maximal lines (one line: a LineString, more: a
\* MultiLineString)
linemerge(lines) ==
    LET Open(k) == lines[k][1] # Last(lines[k])
        Sewable(j, k) ==
            {c \in LineEnds(lines[j]) \cap LineEnds(lines[k]) : Degree(lines, c) = 2}
        pairs == {jk \in (1..Len(lines)) \X (1..Len(lines)) :
                    /\ jk[1] < jk[2] /\ Open(jk[1]) /\ Open(jk[2])
                    /\ Sewable(jk[1], jk[2]) # {}}
    IN  IF pairs = {} THEN lines
        ELSE LET j == Min({jk[1] : jk \in pairs})
                 k == Min({jk[2] : jk \in {x \in pairs : x[1] = j}})
                 c == CHOOSE c \in Sewable(j, k) : TRUE
             IN  linemerge(Drop([lines EXCEPT ![j] = Join(lines[j], lines[k], c)], k))

(***************************************************************************)
(* Shapes.  A shape is a record: type is the geometry type ("None" for a   *)
(* None return), properties the element's properties.                      *)
(***************************************************************************)
NoShape == [type |-> "None"]

PropKeys == {"type", "id", "tags", "nodes", "timestamp", "user", "uid", "version"}
\* get_element_props that copies every key of the element
get_element_props_every_key(el) == el

get_element_props(el) == [k \in (DOMAIN el) \cap PropKeys |-> el[k]]

Point(lon, lat, el) ==
    [type |-> "Point", coords |-> <<lon, lat>>, properties |-> get_element_props(el)]
LineString(coords, el) ==
    [type |-> "LineString", coords |-> coords, properties |-> get_element_props(el)]
\* fix_invalid_polygon(Polygon(coords)): an invalid ring is repaired by
\* buffer(0); the repaired polygon is modelled with the same exterior
Polygon(coords, el) ==
    [type |-> "Polygon", exterior |-> CloseRing(coords),
     repaired |-> ~RingIsValid(CloseRing(coords)),
     properties |-> get_element_props(el)]

\* coordinates of a shape reused through a `ref`
ShapeCoords(sh) ==
    IF sh.type = "Polygon" THEN sh.exterior
    ELSE IF sh.type = "Point" THEN <<sh.coords>>
    ELSE sh.coords

(***************************************************************************)
(* Reference index.  The elements of the document are one sequence of      *)
(* dicts; the index maps "type/id" to the (last) element carrying it, so   *)
(* a mark set through the index is a change of that element of the         *)
(* sequence.  The key '%s/%s' % (type, id) is the pair <<type, id>>.       *)
(***************************************************************************)
_get_ref_name(el_type, id) == <<el_type, id>>
get_ref_name(el) == _get_ref_name(el.type, el.id)

RefTypes == {"node", "way", "relation"}
\* positions of the elements that build_refs_index maps the key to
Indexed(key, els) ==
    {i \in 1..Len(els) : els[i].type \in RefTypes /\ get_ref_name(els[i]) = key}
InIndex(key, els) == Indexed(key, els) # {}
Max(S) == CHOOSE m \in S : \A n \in S : m >= n
\* _get_ref: position of refs_index[key] (a later duplicate replaces an earlier)
_get_ref(key, els) == Max(Indexed(key, els))

Put(d, k, v) == [f \in (DOMAIN d) \cup {k} |-> IF f = k THEN v ELSE d[f]]
Mark(els, i, by) == [els EXCEPT ![i] = Put(@, "used", by)]

(***************************************************************************)
(* Shape builder                                                           *)
(***************************************************************************)
\* result of a call: the shape returned (NoShape for None), the elements
\* after the call, and the exception raised ("" for a normal return)
Returns(sh, els) == [shape |-> sh, els |-> els, exc |-> ""]
Pending == [shape |-> NoShape, exc |-> "pending"]
\* no call of the retry wrapper
NotCalled == [status |-> "none"]
\* a conversion run that has not started, is under way, returned, or raised
NotRunning == [status |-> "none", shapes |-> <<>>, exc |-> ""]
Running == [status |-> "running", shapes |-> <<>>, exc |-> ""]
Returned(shs) == [status |-> "returned", shapes |-> shs, exc |-> ""]
Raised(e) == [status |-> "raised", shapes |-> <<>>, exc |-> e]
NoRun ==
    /\ filter_used_refs = TRUE
    /\ cursor = 0
    /\ all_shapes = <<>>
    /\ result = NotRunning
Raises(e, els) == [shape |-> NoShape, els |-> els, exc |-> e]
\* warning(message); if raise_on_failure: raise Exception(message); return None
Fails(rof, els) == IF rof THEN Raises("Exception", els) ELSE Returns(NoShape, els)

RECURSIVE ResolveNodes(_, _, _, _)
\* the loop over way['nodes'] from position n on: marks each node found and
\* collects its coordinates; stops at the first node missing from the index
ResolveNodes(way, els, n, coords) ==
    IF n > Len(way.nodes) THEN [status |-> "ok", els |-> els, coords |-> coords]
    ELSE LET key == _get_ref_name("node", way.nodes[n]) IN
         IF ~InIndex(key, els) THEN [status |-> "missing", els |-> els, coords |-> coords]
         ELSE IF ~Has(way, "id") THEN [status |-> "KeyError", els |-> els, coords |-> coords]
         ELSE LET i == _get_ref(key, els)
                  marked == Mark(els, i, way.id)
              IN  IF ~(Has(els[i], "lon") /\ Has(els[i], "lat"))
                  THEN [status |-> "KeyError", els |-> marked, coords |-> coords]
                  ELSE ResolveNodes(way, marked, n + 1,
                                    Append(coords, <<els[i].lon, els[i].lat>>))

GeometryCoords(geometry) == [n \in 1..Len(geometry) |-> <<geometry[n].lon, geometry[n].lat>>]

\* nesting of way_to_shape calls through `ref` after which the interpreter
\* raises RecursionError (the model's stand-in for the recursion limit)
MaxRefDepth == 3

\* the end of way_to_shape: a Polygon if the way is an area, `area` being
\* the outcome of is_geometry_polygon, and a LineString otherwise
PolygonOrLine(way, coords, els, rof, area) ==
    IF area = "IndexError" THEN Raises("IndexError", els)
    ELSE IF area = "True"
         THEN IF PolygonRaises(coords) THEN Fails(rof, els)
              ELSE Returns(Polygon(coords, way), els)
         ELSE Returns(LineString(coords, way), els)

\* the tail of way_to_shape, from `if len(coords) < 2` on
ShapeFromCoords(way, coords, els, ak, pf, rof) ==
    IF Len(coords) < 2 THEN Fails(rof, els)
    ELSE PolygonOrLine(way, coords, els, rof, is_geometry_polygon(way, ak, pf))

\* FromNodes with a missing node skipped in strict mode too
FromNodes_missing_skipped(way, r, ak, pf, rof) ==
    IF r.status = "KeyError" THEN Raises("KeyError", r.els)
    ELSE IF r.status = "missing" THEN Returns(NoShape, r.els)
    ELSE ShapeFromCoords(way, r.coords, r.els, ak, pf, rof)

\* way_to_shape after the loop over way['nodes'], r being the loop's result
FromNodes(way, r, ak, pf, rof) ==
    IF r.status = "KeyError" THEN Raises("KeyError", r.els)
    ELSE IF r.status = "missing" THEN Fails(rof, r.els)
    ELSE ShapeFromCoords(way, r.coords, r.els, ak, pf, rof)

\* way_to_shape after the way its `ref` names was converted to ref_way
FromRef(way, ref_way, ak, pf, rof) ==
    IF ref_way.exc # "" THEN ref_way
    ELSE IF ref_way.shape.type = "None" THEN Fails(rof, ref_way.els)
    ELSE ShapeFromCoords(way, ShapeCoords(ref_way.shape), ref_way.els, ak, pf, rof)

\* ref['used'] = way['id'], or way['used'] for a way without id
MarkRef(way, i, els) ==
    IF Has(way, "id") THEN Mark(els, i, way.id)
    ELSE IF Has(way, "used") THEN Mark(els, i, way.used)
    ELSE els

RECURSIVE way_to_shape(_, _, _, _, _, _)
\* way_to_shape with the center used after the geometry, the nodes and the ref
way_to_shape_center_last(way, els, ak, pf, rof, depth) ==
    IF depth > MaxRefDepth THEN Raises("RecursionError", els)
    ELSE IF Has(way, "geometry") /\ Len(way.geometry) > 0
    THEN ShapeFromCoords(way, GeometryCoords(way.geometry), els, ak, pf, rof)
    ELSE IF Has(way, "nodes") /\ Len(way.nodes) > 0
    THEN FromNodes(way, ResolveNodes(way, els, 1, <<>>), ak, pf, rof)
    ELSE IF Has(way, "ref")
    THEN LET key == _get_ref_name(way.type, way.ref) IN
         IF ~InIndex(key, els) THEN Fails(rof, els)
         ELSE LET i == _get_ref(key, els)
                  marked == MarkRef(way, i, els)
              IN  FromRef(way, way_to_shape(marked[i], marked, ak, pf, rof, depth + 1),
                          ak, pf, rof)
    ELSE IF Has(way, "center")
    THEN Returns(Point(way.center.lon, way.center.lat, way), els)
    ELSE Fails(rof, els)

way_to_shape(way, els, ak, pf, rof, depth) ==
    IF depth > MaxRefDepth THEN Raises("RecursionError", els)
    ELSE IF Has(way, "center")
    THEN IF Has(way.center, "lon") /\ Has(way.center, "lat")
         THEN Returns(Point(way.center.lon, way.center.lat, way), els)
         ELSE Raises("KeyError", els)
    ELSE IF Has(way, "geometry") /\ Len(way.geometry) > 0
    THEN ShapeFromCoords(way, GeometryCoords(way.geometry), els, ak, pf, rof)
    ELSE IF Has(way, "nodes") /\ Len(way.nodes) > 0
    THEN FromNodes(way, ResolveNodes(way, els, 1, <<>>), ak, pf, rof)
    ELSE IF Has(way, "ref")
    THEN LET key == _get_ref_name(way.type, way.ref) IN
         IF ~InIndex(key, els) THEN Fails(rof, els)
         ELSE LET i == _get_ref(key, els)
                  marked == MarkRef(way, i, els)
              IN  FromRef(way, way_to_shape(marked[i], marked, ak, pf, rof, depth + 1),
                          ak, pf, rof)
    ELSE Fails(rof, els)

(***************************************************************************)
(* Multipolygon assembly                                                   *)
(***************************************************************************)
\* a geometry of the kernel: None, or a MultiPolygon with its is_valid
NoGeometry == [kind |-> "None"]
MultiPolygon(cells, valid) == [kind |-> "MultiPolygon", cells |-> cells, valid |-> valid]
Built(geom) == [geom |-> geom, exc |-> ""]
Broken(e) == [geom |-> NoGeometry, exc |-> e]

\* _convert_lines_to_multipolygon after linemerge.  Polygon(line) closes the
\* line and raises for a ring of fewer than 4 coordinates.  unary_union of
\* no polygon is an empty GeometryCollection, which to_multipolygon cannot
\* iterate.
FromMergedLine(merged_line, rof) ==
    IF Len(merged_line) > 1
    THEN LET polygons == {n \in 1..Len(merged_line) : ~PolygonRaises(merged_line[n])} IN
         IF rof /\ polygons # 1..Len(merged_line) THEN Broken("Exception")
         ELSE IF polygons = {} THEN Broken("TypeError")
         ELSE Built(MultiPolygon(
                UNION {RingCells(CloseRing(merged_line[n])) : n \in polygons}, TRUE))
    ELSE IF PolygonRaises(merged_line[1])
         THEN IF rof THEN Broken("Exception") ELSE Built(NoGeometry)
         ELSE Built(MultiPolygon(RingCells(CloseRing(merged_line[1])),
                                 RingIsValid(CloseRing(merged_line[1]))))

\* MultiLineString(lines) takes LineStrings only
_convert_lines_to_multipolygon(lines, rof) ==
    IF \E n \in 1..Len(lines) : lines[n].type # "LineString" THEN Broken("TypeError")
    ELSE FromMergedLine(linemerge([n \in 1..Len(lines) |-> lines[n].coords]), rof)

\* itertools.groupby(shapes, role): the first positions of the runs
RunStarts(shapes) ==
    {n \in 1..Len(shapes) : n = 1 \/ shapes[n].role # shapes[n - 1].role}
\* mutant: every shape is a run of its own
RunEnd_single(shapes, start) == start
RunEnd(shapes, start) ==
    Min({n \in start..Len(shapes) : n = Len(shapes) \/ shapes[n + 1].role # shapes[start].role})
Run(shapes, start) == SubSeq(shapes, start, RunEnd(shapes, start))
\* groups, in source order, as <<role, geometry result>>
RECURSIVE Groups(_, _, _)
Groups(shapes, start, rof) ==
    IF start > Len(shapes) THEN <<>>
    ELSE <<[role |-> shapes[start].role,
            made |-> _convert_lines_to_multipolygon(Run(shapes, start), rof)]>>
         \o Groups(shapes, RunEnd(shapes, start) + 1, rof)

\* the loop over the groups other than the base, from group i on
RECURSIVE Combine(_, _, _, _, _)
Combine(groups, base_index, i, multipolygon, rof) ==
    IF i > Len(groups) THEN Built(multipolygon)
    ELSE IF i = base_index THEN Combine(groups, base_index, i + 1, multipolygon, rof)
    ELSE LET geom == groups[i].made.geom IN
         IF geom.kind = "None"
         THEN IF rof THEN Broken("Exception") ELSE Built(NoGeometry)
         ELSE IF ~geom.valid /\ topology_errors THEN Broken("GEOSException")
         ELSE Combine(groups, base_index, i + 1,
                      MultiPolygon(IF groups[i].role = "inner"
                                   THEN multipolygon.cells \ geom.cells
                                   ELSE multipolygon.cells \cup geom.cells,
                                   multipolygon.valid /\ geom.valid),
                      rof)

\* base selection, validity test and combination, from the groups
FromGroups(groups, base, rof) ==
    LET raised == {i \in 1..Len(groups) : groups[i].made.exc # ""} IN
    IF raised # {} THEN Broken(groups[Min(raised)].made.exc)
    ELSE IF base = {} THEN IF rof THEN Broken("Exception") ELSE Built(NoGeometry)
    ELSE LET base_index == Min(base)
             multipolygon == groups[base_index].made.geom
         IN  IF multipolygon.kind = "None" THEN Broken("AttributeError")
             ELSE IF ~multipolygon.valid
                  THEN IF rof THEN Broken("Exception") ELSE Built(NoGeometry)
             ELSE Combine(groups, base_index, 1, multipolygon, rof)

\* mutant: every group but those of role "inner" can be the base
OuterGroups_not_inner(groups) == {i \in 1..Len(groups) : groups[i].role # "inner"}

\* the groups of role "outer": the first of them is the base
OuterGroups(groups) == {i \in 1..Len(groups) : groups[i].role = "outer"}
FromOuterGroups(groups, rof) == FromGroups(groups, OuterGroups(groups), rof)

\* mutant: the first run is the base, whatever its role
_convert_shapes_to_multipolygon_first_run(shapes, rof) ==
    IF Len(shapes) < 1 THEN IF rof THEN Broken("Exception") ELSE Built(NoGeometry)
    ELSE FromGroups(Groups(shapes, 1, rof), {1}, rof)

_convert_shapes_to_multipolygon(shapes, rof) ==
    IF Len(shapes) < 1 THEN IF rof THEN Broken("Exception") ELSE Built(NoGeometry)
    ELSE FromOuterGroups(Groups(shapes, 1, rof), rof)

(***************************************************************************)
(* Relations                                                               *)
(***************************************************************************)
\* fix_invalid_polygon, to_multipolygon and orient_multipolygon leave the
\* region a valid MultiPolygon
MultiPolygonShape(cells, rel) ==
    [type |-> "MultiPolygon", cells |-> cells, properties |-> get_element_props(rel)]
\* linemerge(MultiLineString(lines)) is a LineString or a MultiLineString
MergedShape(merged, rel) ==
    IF Len(merged) = 1 THEN LineString(merged[1], rel)
    ELSE [type |-> "MultiLineString", lines |-> merged,
          properties |-> get_element_props(rel)]

\* a Polygon member shape is replaced by the LineString of its exterior
AsLine(sh) ==
    IF sh.type = "Polygon" THEN [type |-> "LineString", coords |-> sh.exterior]
    ELSE IF sh.type = "LineString" THEN [type |-> "LineString", coords |-> sh.coords]
    ELSE [type |-> sh.type]

\* The members iterated are those of the element at position q of the
\* elements (the relation itself, or the relation its `ref` resolves to).
Loop(status, els, shapes) == [status |-> status, els |-> els, shapes |-> shapes]

RECURSIVE MultipolygonMembers(_, _, _, _, _, _, _)
RECURSIVE AfterMemberWay(_, _, _, _, _, _, _, _)

\* the loop over the members of multipolygon_relation_to_shape, from k on
MultipolygonMembers(rel, q, els, k, shapes, rof, depth) ==
    IF k > Len(els[q].members) THEN Loop("ok", els, shapes)
    ELSE IF els[q].members[k].type # "way"
    THEN IF rof THEN Loop("Exception", els, shapes)
         ELSE MultipolygonMembers(rel, q, els, k + 1, shapes, rof, depth)
    ELSE IF ~Has(rel, "id") THEN Loop("KeyError", els, shapes)
    ELSE LET marked == [els EXCEPT ![q].members[k] = Put(@, "used", rel.id)] IN
         AfterMemberWay(rel, q, k, shapes, rof, depth, marked[q].members[k],
                        way_to_shape(marked[q].members[k], marked, None, None, rof, depth))

\* the rest of a turn of that loop, way_shape being the member's shape
AfterMemberWay(rel, q, k, shapes, rof, depth, member, way_shape) ==
    IF way_shape.exc # "" THEN Loop(way_shape.exc, way_shape.els, shapes)
    ELSE IF way_shape.shape.type = "None"
    THEN IF rof THEN Loop("Exception", way_shape.els, shapes)
         ELSE MultipolygonMembers(rel, q, way_shape.els, k + 1, shapes, rof, depth)
    ELSE IF ~(Has(member, "role") /\ Has(member, "ref"))
    THEN Loop("KeyError", way_shape.els, shapes)
    ELSE MultipolygonMembers(rel, q, way_shape.els, k + 1,
             Append(shapes, AsLine(way_shape.shape)
                            @@ [role |-> member.role, ref |-> member.ref]),
             rof, depth)

\* position of the element whose members a relation uses: 0 if its ref is
\* not in the index
MembersAt(rel, at, els) ==
    IF Has(rel, "members") THEN at
    ELSE IF InIndex(_get_ref_name(rel.type, rel.ref), els)
         THEN _get_ref(_get_ref_name(rel.type, rel.ref), els)
         ELSE 0

\* multipolygon_relation_to_shape from the computed multipolygon on
FromMultipolygon(rel, els, rof, made) ==
    IF made.exc # "" THEN Raises(made.exc, els)
    ELSE IF made.geom.kind = "None" THEN Fails(rof, els)
    ELSE Returns(MultiPolygonShape(made.geom.cells, rel), els)

\* multipolygon_relation_to_shape after the loop over the members
FromMembers(rel, rof, loop) ==
    IF loop.status # "ok" THEN Raises(loop.status, loop.els)
    ELSE FromMultipolygon(rel, loop.els, rof,
                          _convert_shapes_to_multipolygon(loop.shapes, rof))

multipolygon_relation_to_shape(rel, at, els, rof, depth) ==
    IF ~Has(rel, "members") /\ ~Has(rel, "ref") THEN Raises("KeyError", els)
    ELSE
    LET q == MembersAt(rel, at, els) IN
    IF q = 0 THEN Fails(rof, els)
    ELSE IF ~Has(els[q], "members") THEN Raises("KeyError", els)
    ELSE FromMembers(rel, rof, MultipolygonMembers(rel, q, els, 1, <<>>, rof, depth))

RECURSIVE MultilineMembers(_, _, _, _, _, _, _)
RECURSIVE AfterMember(_, _, _, _, _, _, _)
RECURSIVE multiline_realation_to_shape(_, _, _, _, _)
RECURSIVE relation_to_shape(_, _, _, _, _)
RECURSIVE element_to_shape(_, _, _, _, _, _, _)

\* found_member['used'] = rel['id'] for a relation member found in the index
MarkMember(rel, member, els) ==
    IF member.type = "relation" /\ InIndex(_get_ref_name("relation", member.ref), els)
    THEN Mark(els, _get_ref(_get_ref_name("relation", member.ref), els), rel.id)
    ELSE els

\* the loop over the members of multiline_realation_to_shape, from k on
MultilineMembers(rel, q, els, k, lines, rof, depth) ==
    IF k > Len(els[q].members) THEN Loop("ok", els, lines)
    ELSE
    LET member == els[q].members[k] IN
    IF member.type \notin {"way", "relation"}
    THEN IF rof THEN Loop("Exception", els, lines)
         ELSE MultilineMembers(rel, q, els, k + 1, lines, rof, depth)
    ELSE IF member.type = "relation" /\ ~Has(member, "ref") THEN Loop("KeyError", els, lines)
    ELSE IF /\ member.type = "relation"
            /\ InIndex(_get_ref_name("relation", member.ref), els)
            /\ ~Has(rel, "id")
    THEN Loop("KeyError", els, lines)
    ELSE AfterMember(rel, q, k, lines, rof, depth,
                     IF member.type = "way"
                     THEN way_to_shape(member, els, None, None, rof, depth)
                     ELSE element_to_shape(member, 0, MarkMember(rel, member, els),
                                           None, None, rof, depth + 1))

\* the rest of a turn of that loop, way_shape being the member's shape
AfterMember(rel, q, k, lines, rof, depth, way_shape) ==
    IF way_shape.exc # "" THEN Loop(way_shape.exc, way_shape.els, lines)
    ELSE IF way_shape.shape.type = "None"
    THEN IF rof THEN Loop("Exception", way_shape.els, lines)
         ELSE MultilineMembers(rel, q, way_shape.els, k + 1, lines, rof, depth)
    ELSE MultilineMembers(rel, q, way_shape.els, k + 1,
                          Append(lines, AsLine(way_shape.shape)), rof, depth)

\* multiline_realation_to_shape after the loop over the members;
\* MultiLineString(lines) takes LineStrings only
FromLines(rel, rof, loop) ==
    IF loop.status # "ok" THEN Raises(loop.status, loop.els)
    ELSE IF Len(loop.shapes) < 1 THEN Fails(rof, loop.els)
    ELSE IF \E n \in 1..Len(loop.shapes) : loop.shapes[n].type # "LineString"
         THEN Raises("TypeError", loop.els)
    ELSE Returns(MergedShape(linemerge([n \in 1..Len(loop.shapes) |-> loop.shapes[n].coords]),
                             rel),
                 loop.els)

multiline_realation_to_shape(rel, at, els, rof, depth) ==
    IF ~Has(rel, "members") /\ ~Has(rel, "ref") THEN Raises("KeyError", els)
    ELSE
    LET q == MembersAt(rel, at, els) IN
    IF q = 0 THEN Fails(rof, els)
    ELSE IF ~Has(els[q], "members") THEN Raises("KeyError", els)
    ELSE FromLines(rel, rof, MultilineMembers(rel, q, els, 1, <<>>, rof, depth))

\* Caught without the raise of the strict mode
Caught_not_raised(made, rof) == IF made.exc = "" THEN made ELSE Returns(NoShape, made.els)

\* except Exception: error(message); raise Exception(message) in strict mode
Caught(made, rof) == IF made.exc = "" THEN made ELSE Fails(rof, made.els)

\* The tables are not handed on to the relation builders: the classifier and
\* the member ways use the default tables.  Every exception is caught: the
\* call raises Exception in strict mode and returns None otherwise, the
\* RecursionError of a relation nested beyond MaxRefDepth included.
relation_to_shape(rel, at, els, rof, depth) ==
    IF depth > MaxRefDepth THEN Fails(rof, els)
    ELSE IF Has(rel, "center")
    THEN IF Has(rel.center, "lon") /\ Has(rel.center, "lat")
         THEN Returns(Point(rel.center.lon, rel.center.lat, rel), els)
         ELSE Raises("KeyError", els)
    ELSE LET area == is_geometry_polygon(rel, None, None) IN
         Caught(IF area = "IndexError" THEN Raises("IndexError", els)
                ELSE IF area = "True"
                     THEN multipolygon_relation_to_shape(rel, at, els, rof, depth)
                     ELSE multiline_realation_to_shape(rel, at, els, rof, depth),
                rof)

node_to_shape(el, els) ==
    IF Has(el, "lon") /\ Has(el, "lat") THEN Returns(Point(el.lon, el.lat, el), els)
    ELSE Raises("KeyError", els)

\* `at` is the position of el in the elements (0 for a member entry)
element_to_shape(el, at, els, ak, pf, rof, depth) ==
    IF el.type = "node" THEN node_to_shape(el, els)
    ELSE IF el.type = "way" THEN way_to_shape(el, els, ak, pf, rof, depth)
    ELSE IF el.type = "relation" THEN relation_to_shape(el, at, els, rof, depth)
    ELSE Returns(NoShape, els)

(***************************************************************************)
(* Inputs of the classifier calls                                          *)
(***************************************************************************)
MaxTags == 2
MaxRules == 2

\* the values each tag key takes in the inputs
TagDomain ==
    [area     |-> {"yes", "no", "unknown"},
     type     |-> {"multipolygon"},
     building |-> {"yes"},
     highway  |-> {"steps", "trunk", "rest_area"}]

RECURSIVE TagSeqs(_)
\* every tags dict of exactly n entries: distinct keys, in every order
TagSeqs(n) ==
    IF n = 0 THEN {<<>>}
    ELSE {Append(t, <<k, v>>) :
            t \in TagSeqs(n - 1),
            k \in DOMAIN TagDomain, v \in UNION {TagDomain[kk] : kk \in DOMAIN TagDomain}}

WellFormedTags(t) ==
    /\ \A n \in 1..Len(t) : t[n][2] \in TagDomain[t[n][1]]
    /\ \A m, n \in 1..Len(t) : m # n => t[m][1] # t[n][1]

AllTags == UNION {{t \in TagSeqs(n) : WellFormedTags(t)} : n \in 0..MaxTags}

RuleChoices ==
    { [key |-> "building", polygon |-> "all"],
      [key |-> "highway", polygon |-> "whitelist", values |-> {"rest_area"}],
      [key |-> "highway", polygon |-> "blacklist", values |-> {"steps"}] }

RECURSIVE RuleSeqs(_)
RuleSeqs(n) ==
    IF n = 0 THEN {<<>>}
    ELSE {Append(t, r) : t \in RuleSeqs(n - 1), r \in RuleChoices}

\* rule tables: every order of distinct rules, up to MaxRules of them
AllRuleTables ==
    UNION {{t \in RuleSeqs(n) : \A i, j \in 1..n : i # j => t[i] # t[j]} : n \in 0..MaxRules}

Dict0 == [k \in {} |-> TRUE]
BuildingExceptions ==
    { Dict0, [building |-> [yes |-> TRUE]], [building |-> [yes |-> FALSE]],
      [building |-> [entrance |-> TRUE]] }
HighwayExceptions  == { Dict0, [highway |-> [trunk |-> TRUE]], [highway |-> [steps |-> TRUE]] }
AllAreaKeys == {a @@ b : a \in BuildingExceptions, b \in HighwayExceptions}

P(lon, lat) == [lat |-> lat, lon |-> lon]
GeometryChoices ==
    { <<>>,
      << P(0, 0), P(1, 0), P(1, 1) >>,
      << P(0, 0), P(1, 0), P(1, 1), P(0, 0) >> }
NodesChoices == { <<>>, <<1, 2, 3>>, <<1, 2, 3, 1>> }

\* the element dicts handed to the classifier: each of tags, geometry and
\* nodes present or not
ClassifierElements ==
    { t @@ g @@ n :
        t \in {Dict0} \cup {[tags |-> x] : x \in AllTags},
        g \in {Dict0} \cup {[geometry |-> x] : x \in GeometryChoices},
        n \in {Dict0} \cup {[nodes |-> x] : x \in NodesChoices} }

\* the nodes that the node-id lists of NodesChoices refer to
ClassifierIndex ==
    << [type |-> "node", id |-> 1, lat |-> 0, lon |-> 0],
       [type |-> "node", id |-> 2, lat |-> 0, lon |-> 1],
       [type |-> "node", id |-> 3, lat |-> 1, lon |-> 1] >>

(***************************************************************************)
(* Specification of the classifier calls                                   *)
(***************************************************************************)
InitClassify ==
    /\ node \in ClassifierElements
    /\ area_keys \in {None} \cup {Some(a) : a \in AllAreaKeys}
    /\ polygon_features \in {None} \cup {Some(t) : t \in AllRuleTables}
    /\ called = "none"
    /\ verdict = "pending"
    /\ elements = ClassifierIndex
    /\ raise_on_failure = FALSE
    /\ topology_errors = FALSE
    /\ assembled = Pending
    /\ NoRun
    /\ wrapper = NotCalled

\* is_geometry_polygon(node, area_keys, polygon_features)
Classify ==
    /\ called = "none"
    /\ called' = "is_geometry_polygon"
    /\ verdict' = is_geometry_polygon(node, area_keys, polygon_features)
    /\ UNCHANGED <<wrapper, node, area_keys, polygon_features, assembler, run>>

\* is_geometry_polygon_without_exceptions(node, polygon_features), called
\* directly; node['tags'] of an element without tags raises KeyError
ClassifyRules ==
    /\ called = "none"
    /\ called' = "is_geometry_polygon_without_exceptions"
    /\ verdict' = IF Has(node, "tags")
                  THEN Bool(is_geometry_polygon_without_exceptions(node, polygon_features))
                  ELSE "KeyError"
    /\ UNCHANGED <<wrapper, node, area_keys, polygon_features, assembler, run>>

\* the outcome and the marks that a way_to_shape call leaves
Built_way(r) ==
    /\ verdict' = IF r.exc # "" THEN r.exc ELSE r.shape.type
    /\ elements' = r.els

\* way_to_shape(way, refs_index, area_keys, polygon_features) for the element
\* as a way; the outcome kept is the geometry type built ("None" for None)
\* or the exception raised
BuildWay ==
    /\ called = "none"
    /\ called' = "way_to_shape"
    /\ Built_way(way_to_shape([type |-> "way", id |-> 7] @@ node, elements,
                              area_keys, polygon_features, raise_on_failure, 0))
    /\ UNCHANGED <<wrapper, node, area_keys, polygon_features,
                   raise_on_failure, topology_errors, assembled, run>>

NextClassify == Classify \/ ClassifyRules \/ BuildWay

SpecClassify == InitClassify /\ [][NextClassify]_vars

(***************************************************************************)
(* Specification of the relation calls                                     *)
(***************************************************************************)
MaxMembers == 4

Geometry(coords) == [n \in 1..Len(coords) |-> P(coords[n][1], coords[n][2])]
WayMember(ref, role, coords) ==
    [type |-> "way", ref |-> ref, role |-> role, geometry |-> Geometry(coords)]

\* Member ways with inline geometry, on the square (0,0)-(3,3):
\*   A, B, D   three arcs that together are the boundary of the square,
\*             A being a way of two nodes
\*   C         the closed ring of the middle cell
\*   X         a closed ring that crosses itself
\*   E         a way of two nodes that touches the end of no other way
ArcA  == << <<1, 0>>, <<0, 0>> >>
ArcB  == << <<0, 0>>, <<0, 3>>, <<1, 3>> >>
ArcD  == << <<1, 3>>, <<3, 3>>, <<3, 0>>, <<1, 0>> >>
RingC == << <<1, 1>>, <<2, 1>>, <<2, 2>>, <<1, 2>>, <<1, 1>> >>
RingX == << <<0, 0>>, <<3, 2>>, <<3, 0>>, <<0, 2>>, <<0, 0>> >>
ArcE  == << <<2, 0>>, <<2, 1>> >>

MemberCatalogue ==
    << WayMember(11, "outer", ArcA),
       WayMember(12, "outer", ArcB),
       WayMember(13, "outer", ArcD),
       WayMember(14, "inner", RingC),
       WayMember(15, "outer", RingX),
       WayMember(16, "", RingC),
       WayMember(17, "outer", ArcE),
       [type |-> "node", ref |-> 18, role |-> "outer", lat |-> 0, lon |-> 0] >>

\* member lists: up to MaxMembers distinct entries of the catalogue, in
\* every order
MemberLists ==
    UNION {{[k \in 1..n |-> MemberCatalogue[pick[k]]] :
                pick \in {f \in [1..n -> 1..Len(MemberCatalogue)] :
                            \A i, j \in 1..n : i # j => f[i] # f[j]}} :
           n \in 0..MaxMembers}

MultipolygonRelation(members) ==
    [type |-> "relation", id |-> 9, tags |-> << <<"type", "multipolygon">> >>,
     members |-> members]

InitAssemble ==
    /\ node = None
    /\ area_keys = None
    /\ polygon_features = None
    /\ called = "none"
    /\ verdict = "pending"
    /\ elements \in {<<MultipolygonRelation(m)>> : m \in MemberLists}
    /\ raise_on_failure \in BOOLEAN
    /\ topology_errors \in BOOLEAN
    /\ assembled = Pending
    /\ NoRun
    /\ wrapper = NotCalled

\* the outcome and the marks that a relation_to_shape call leaves
Assembled(r) ==
    /\ assembled' = [shape |-> r.shape, exc |-> r.exc]
    /\ elements' = r.els

\* relation_to_shape(rel, refs_index, raise_on_failure=raise_on_failure) on
\* the relation of the elements
Assemble ==
    /\ assembled = Pending
    /\ Assembled(relation_to_shape(elements[1], 1, elements, raise_on_failure, 0))
    /\ UNCHANGED <<wrapper, classifier, raise_on_failure, topology_errors, run>>

NextAssemble == Assemble

SpecAssemble == InitAssemble /\ [][NextAssemble]_vars

\* Member lists with members that the loop skips: a way member whose `ref`
\* is not in the index and a node member, both of role "inner", among the
\* arcs B and D of role "outer" and the ring C of role "inner"
SkippedCatalogue ==
    << WayMember(12, "outer", ArcB),
       WayMember(13, "outer", ArcD),
       WayMember(14, "inner", RingC),
       [type |-> "way", ref |-> 19, role |-> "inner"],
       [type |-> "node", ref |-> 18, role |-> "inner", lat |-> 0, lon |-> 0] >>

SkippedLists ==
    UNION {{[k \in 1..n |-> SkippedCatalogue[pick[k]]] :
                pick \in {f \in [1..n -> 1..Len(SkippedCatalogue)] :
                            \A i, j \in 1..n : i # j => f[i] # f[j]}} :
           n \in 0..MaxMembers}

InitSkipped ==
    /\ node = None
    /\ area_keys = None
    /\ polygon_features = None
    /\ called = "none"
    /\ verdict = "pending"
    /\ elements \in {<<MultipolygonRelation(m)>> : m \in SkippedLists}
    /\ raise_on_failure \in BOOLEAN
    /\ topology_errors \in BOOLEAN
    /\ assembled = Pending
    /\ NoRun
    /\ wrapper = NotCalled

SpecSkipped == InitSkipped /\ [][NextAssemble]_vars

(***************************************************************************)
(* Specification of a conversion run: _json2shapes                         *)
(***************************************************************************)
MaxElements == 3

\* The elements a document is made of.  Nodes 1 and 6 and the way 5 over
\* them; the way 6 as Overpass prints it with `out geom` (inline geometry
\* and the ids of nodes that are not part of the document), whose id is
\* also the id of a node; multipolygon relations whose member is that way
\* (with the geometry inline, or by reference only); a route relation over
\* that way; a way whose nodes list is empty; a way and a relation with a
\* center, whose node 3 and way 5 may be missing.
ElementCatalogue ==
    << [type |-> "node", id |-> 1, lat |-> 0, lon |-> 0],
       [type |-> "node", id |-> 6, lat |-> 0, lon |-> 1],
       [type |-> "way", id |-> 5, nodes |-> <<1, 6>>,
        tags |-> << <<"highway", "trunk">> >>],
       [type |-> "way", id |-> 6, geometry |-> Geometry(RingC), nodes |-> <<2, 3, 2>>,
        tags |-> << <<"building", "yes">> >>],
       [type |-> "relation", id |-> 9, tags |-> << <<"type", "multipolygon">> >>,
        members |-> << WayMember(6, "outer", RingC) >>],
       [type |-> "relation", id |-> 8, tags |-> << <<"type", "multipolygon">> >>,
        members |-> << [type |-> "way", ref |-> 6, role |-> "outer"] >>],
       [type |-> "relation", id |-> 7, tags |-> << <<"type", "route">> >>,
        members |-> << [type |-> "way", ref |-> 6, role |-> ""] >>],
       [type |-> "way", id |-> 4, geometry |-> Geometry(RingC), nodes |-> <<>>,
        tags |-> << <<"building", "yes">> >>],
       [type |-> "way", id |-> 2, center |-> [lat |-> 2, lon |-> 1], nodes |-> <<1, 3>>],
       [type |-> "relation", id |-> 10, center |-> [lat |-> 1, lon |-> 2],
        tags |-> << <<"type", "multipolygon">> >>,
        members |-> << [type |-> "way", ref |-> 5, role |-> "outer"] >>] >>

\* documents: up to MaxElements distinct elements, in every order
Documents ==
    UNION {{[k \in 1..n |-> ElementCatalogue[pick[k]]] :
                pick \in {f \in [1..n -> 1..Len(ElementCatalogue)] :
                            \A i, j \in 1..n : i # j => f[i] # f[j]}} :
           n \in 0..MaxElements}

Init ==
    /\ node = None
    /\ called = "none"
    /\ verdict = "pending"
    /\ area_keys = None
    /\ polygon_features = None
    /\ elements \in Documents
    /\ raise_on_failure \in BOOLEAN
    /\ topology_errors \in BOOLEAN
    /\ assembled = Pending
    /\ filter_used_refs \in BOOLEAN
    /\ cursor = 0
    /\ all_shapes = <<>>
    /\ result = NotRunning
    /\ wrapper = NotCalled

\* refs and build_refs_index: get_ref_name needs the id of every element of
\* a known type
BuildIndex ==
    /\ result = NotRunning
    /\ cursor' = 1
    /\ result' = IF \E i \in 1..Len(elements) :
                        elements[i].type \in RefTypes /\ ~Has(elements[i], "id")
                 THEN Raised("KeyError") ELSE Running
    /\ UNCHANGED <<wrapper, classifier, assembler, filter_used_refs, all_shapes>>

\* mutant: the shape is put in front of the shapes collected so far
Collect_in_front(el, r) ==
    /\ elements' = r.els
    /\ IF r.exc # "" THEN result' = Raised(r.exc) /\ all_shapes' = all_shapes
       ELSE IF r.shape # NoShape
       THEN result' = result /\ all_shapes' = <<r.shape>> \o all_shapes
       ELSE /\ result' = IF Has(el, "id") THEN result ELSE Raised("KeyError")
            /\ all_shapes' = all_shapes

\* the shape is appended; None is reported with the id of the element
Collect(el, r) ==
    /\ elements' = r.els
    /\ IF r.exc # "" THEN result' = Raised(r.exc) /\ all_shapes' = all_shapes
       ELSE IF r.shape # NoShape
       THEN result' = result /\ all_shapes' = Append(all_shapes, r.shape)
       ELSE /\ result' = IF Has(el, "id") THEN result ELSE Raised("KeyError")
            /\ all_shapes' = all_shapes

\* one turn of the loop over data['elements']
ConvertElement ==
    /\ result = Running
    /\ cursor <= Len(elements)
    /\ Collect(elements[cursor],
               element_to_shape(elements[cursor], cursor, elements, area_keys,
                                polygon_features, raise_on_failure, 0))
    /\ cursor' = cursor + 1
    /\ UNCHANGED <<wrapper, classifier, raise_on_failure, topology_errors, assembled,
                   filter_used_refs>>

\* ids of the elements of the index that carry a `used` mark
UsedIds(els) ==
    {els[i].id : i \in {j \in 1..Len(els) : els[j].type \in RefTypes /\ Has(els[j], "used")}}

\* the end of _json2shapes: all the shapes, or those whose id is not a key
\* of `used`
Return ==
    /\ result = Running
    /\ cursor > Len(elements)
    /\ result' =
         IF ~filter_used_refs THEN Returned(all_shapes)
         ELSE IF \E n \in 1..Len(all_shapes) : ~Has(all_shapes[n].properties, "id")
              THEN Raised("KeyError")
              ELSE Returned(SelectSeq(all_shapes,
                        LAMBDA sh : sh.properties.id \notin UsedIds(elements)))
    /\ UNCHANGED <<wrapper, classifier, assembler, filter_used_refs, cursor, all_shapes>>

Next == BuildIndex \/ ConvertElement \/ Return

Spec == Init /\ [][Next]_vars

(***************************************************************************)
(* Specification of a conversion run with caller-supplied tables           *)
(***************************************************************************)
\* a rule table that makes every highway an area and knows no other key,
\* and an exception table that flags building=yes
SuppliedPolygonFeatures == << [key |-> "highway", polygon |-> "all"] >>
SuppliedAreaKeys == [building |-> [yes |-> TRUE]]

\* closed ways and relations over them, tagged as building or as highway:
\* the default tables make the buildings areas, the supplied rule table
\* the highways, and the supplied exception table makes the buildings lines
ConfiguredCatalogue ==
    << [type |-> "way", id |-> 6, geometry |-> Geometry(RingC),
        tags |-> << <<"building", "yes">> >>],
       [type |-> "way", id |-> 5, geometry |-> Geometry(RingC),
        tags |-> << <<"highway", "trunk">> >>],
       [type |-> "relation", id |-> 9, tags |-> << <<"building", "yes">> >>,
        members |-> << WayMember(6, "outer", RingC) >>],
       [type |-> "relation", id |-> 8, tags |-> << <<"highway", "trunk">> >>,
        members |-> << [type |-> "way", ref |-> 5, role |-> "outer"] >>] >>

ConfiguredDocuments ==
    UNION {{[k \in 1..n |-> ConfiguredCatalogue[pick[k]]] :
                pick \in {f \in [1..n -> 1..Len(ConfiguredCatalogue)] :
                            \A i, j \in 1..n : i # j => f[i] # f[j]}} :
           n \in 0..MaxElements}

InitConfigured ==
    /\ node = None
    /\ called = "none"
    /\ verdict = "pending"
    /\ area_keys \in {None, Some(SuppliedAreaKeys)}
    /\ polygon_features \in {None, Some(SuppliedPolygonFeatures)}
    /\ elements \in ConfiguredDocuments
    /\ raise_on_failure \in BOOLEAN
    /\ topology_errors \in BOOLEAN
    /\ assembled = Pending
    /\ filter_used_refs \in BOOLEAN
    /\ cursor = 0
    /\ all_shapes = <<>>
    /\ result = NotRunning
    /\ wrapper = NotCalled

SpecConfigured == InitConfigured /\ [][Next]_vars

(***************************************************************************)
(* Specification of a conversion run over documents with one node          *)
(***************************************************************************)
\* the keys a node may carry besides type, id, lat and lon: those that
\* get_element_props copies, and one that it does not
NodeExtras ==
    [tags |-> << <<"amenity", "cafe">> >>, nodes |-> <<>>, timestamp |-> "2020-01-01",
     user |-> "mapper", uid |-> 7, version |-> 2, changeset |-> 3]
\* the node 1 with each set of these keys
NodeChoices ==
    {[type |-> "node", id |-> 1, lat |-> 2, lon |-> 1] @@ [k \in keys |-> NodeExtras[k]] :
        keys \in SUBSET (DOMAIN NodeExtras)}
\* a way over the node, which marks it
WayOverNode == [type |-> "way", id |-> 5, nodes |-> <<1, 1>>]
\* the node alone, or with the way before or after it
NodeDocuments ==
    UNION {{<<n>>, <<WayOverNode, n>>, <<n, WayOverNode>>} : n \in NodeChoices}

InitNodes ==
    /\ node = None
    /\ called = "none"
    /\ verdict = "pending"
    /\ area_keys = None
    /\ polygon_features = None
    /\ elements \in NodeDocuments
    /\ raise_on_failure \in BOOLEAN
    /\ topology_errors = FALSE
    /\ assembled = Pending
    /\ filter_used_refs \in BOOLEAN
    /\ cursor = 0
    /\ all_shapes = <<>>
    /\ result = NotRunning
    /\ wrapper = NotCalled

SpecNodes == InitNodes /\ [][Next]_vars

(***************************************************************************)
(* Specification of a conversion run over ways that refer to ways          *)
(***************************************************************************)
\* The way 6 has inline geometry; the way 5 refers to it and the way 1 to
\* the way 5; the way 4 refers to itself; the ways 3 and 2 refer to each
\* other.
RefCatalogue ==
    << [type |-> "way", id |-> 6, geometry |-> Geometry(ArcB)],
       [type |-> "way", id |-> 5, ref |-> 6],
       [type |-> "way", id |-> 1, ref |-> 5],
       [type |-> "way", id |-> 4, ref |-> 4],
       [type |-> "way", id |-> 3, ref |-> 2],
       [type |-> "way", id |-> 2, ref |-> 3] >>

RefDocuments ==
    UNION {{[k \in 1..n |-> RefCatalogue[pick[k]]] :
                pick \in {f \in [1..n -> 1..Len(RefCatalogue)] :
                            \A i, j \in 1..n : i # j => f[i] # f[j]}} :
           n \in 0..MaxElements}

InitRefs ==
    /\ node = None
    /\ called = "none"
    /\ verdict = "pending"
    /\ area_keys = None
    /\ polygon_features = None
    /\ elements \in RefDocuments
    /\ raise_on_failure \in BOOLEAN
    /\ topology_errors = FALSE
    /\ assembled = Pending
    /\ filter_used_refs \in BOOLEAN
    /\ cursor = 0
    /\ all_shapes = <<>>
    /\ result = NotRunning
    /\ wrapper = NotCalled

SpecRefs == InitRefs /\ [][Next]_vars

(***************************************************************************)
(* The conversion as one call, for comparing the runs of two documents     *)
(***************************************************************************)
\* the loop of _json2shapes after element_to_shape returned r for data[k]
RECURSIVE Converted(_, _, _, _, _, _)
AfterElement(data, k, shs, ak, pf, rof, r) ==
    IF r.exc # "" THEN [status |-> r.exc, els |-> r.els, shapes |-> shs]
    ELSE IF r.shape # NoShape
         THEN Converted(r.els, k + 1, Append(shs, r.shape), ak, pf, rof)
    ELSE IF ~Has(data[k], "id") THEN [status |-> "KeyError", els |-> r.els, shapes |-> shs]
    ELSE Converted(r.els, k + 1, shs, ak, pf, rof)

\* the loop over data['elements'] from position k on
Converted(data, k, shs, ak, pf, rof) ==
    IF k > Len(data) THEN [status |-> "ok", els |-> data, shapes |-> shs]
    ELSE AfterElement(data, k, shs, ak, pf, rof,
                      element_to_shape(data[k], k, data, ak, pf, rof, 0))

\* the return of _json2shapes, made the loop's result
Filtered(made, filter) ==
    IF made.status # "ok" THEN Raised(made.status)
    ELSE IF ~filter THEN Returned(made.shapes)
    ELSE IF \E n \in 1..Len(made.shapes) : ~Has(made.shapes[n].properties, "id")
         THEN Raised("KeyError")
    ELSE Returned(SelectSeq(made.shapes,
                            LAMBDA sh : sh.properties.id \notin UsedIds(made.els)))

_json2shapes(data, filter, ak, pf, rof) ==
    IF \E i \in 1..Len(data) : data[i].type \in RefTypes /\ ~Has(data[i], "id")
    THEN Raised("KeyError")
    ELSE Filtered(Converted(data, 1, <<>>, ak, pf, rof), filter)

\* mapping(g): the GeoJSON geometry of a shape, its coordinates as lists
mapping(sh) ==
    IF sh.type = "Point" THEN [type |-> "Point", coordinates |-> sh.coords]
    ELSE IF sh.type = "LineString" THEN [type |-> "LineString", coordinates |-> sh.coords]
    ELSE IF sh.type = "Polygon" THEN [type |-> "Polygon", coordinates |-> <<sh.exterior>>]
    ELSE IF sh.type = "MultiLineString"
         THEN [type |-> "MultiLineString", coordinates |-> sh.lines]
    ELSE [type |-> sh.type, cells |-> sh.cells]

shape_to_feature(sh) ==
    [type |-> "Feature", properties |-> sh.properties, geometry |-> mapping(sh)]

\* the features of _json2geojson for the shapes _json2shapes returned
_json2geojson(shs) ==
    [type |-> "FeatureCollection",
     features |-> [n \in 1..Len(shs) |-> shape_to_feature(shs[n])]]

(***************************************************************************)
(* Specification of a conversion run over documents whose elements fail:   *)
(* one element for each kind of failure, and the elements they refer to    *)
(***************************************************************************)
\* A node and a way with inline geometry, which convert.  The way 5 names
\* a node that no document holds; the geometry of the way 4 is a single
\* coordinate; the member of relation 8 is resolved through the index, and
\* is missing from a document without the way 6; relation 7 has a node
\* member; relation 9 has no outer member; the member of relation 3 is
\* relation 8 and that of relation 2 is relation 3.
FaultCatalogue ==
    << [type |-> "node", id |-> 1, lat |-> 0, lon |-> 0],
       [type |-> "way", id |-> 6, geometry |-> Geometry(RingC),
        tags |-> << <<"building", "yes">> >>],
       [type |-> "way", id |-> 5, nodes |-> <<1, 3>>,
        tags |-> << <<"highway", "trunk">> >>],
       [type |-> "way", id |-> 4, geometry |-> Geometry(<< <<0, 0>> >>)],
       [type |-> "relation", id |-> 8, tags |-> << <<"type", "multipolygon">> >>,
        members |-> << [type |-> "way", ref |-> 6, role |-> "outer"] >>],
       [type |-> "relation", id |-> 7, tags |-> << <<"type", "route">> >>,
        members |-> << [type |-> "way", ref |-> 6, role |-> ""],
                       [type |-> "node", ref |-> 1, role |-> "stop"] >>],
       [type |-> "relation", id |-> 9, tags |-> << <<"type", "multipolygon">> >>,
        members |-> << WayMember(6, "inner", RingC) >>],
       [type |-> "relation", id |-> 3, tags |-> << <<"type", "route">> >>,
        members |-> << [type |-> "relation", ref |-> 8, role |-> ""] >>],
       [type |-> "relation", id |-> 2, tags |-> << <<"type", "route">> >>,
        members |-> << [type |-> "relation", ref |-> 3, role |-> ""] >>] >>

FaultDocuments ==
    UNION {{[k \in 1..n |-> FaultCatalogue[pick[k]]] :
                pick \in {f \in [1..n -> 1..Len(FaultCatalogue)] :
                            \A i, j \in 1..n : i # j => f[i] # f[j]}} :
           n \in 0..MaxElements}

InitFaults ==
    /\ node = None
    /\ called = "none"
    /\ verdict = "pending"
    /\ area_keys = None
    /\ polygon_features = None
    /\ elements \in FaultDocuments
    /\ raise_on_failure \in BOOLEAN
    /\ topology_errors \in BOOLEAN
    /\ assembled = Pending
    /\ filter_used_refs \in BOOLEAN
    /\ cursor = 0
    /\ all_shapes = <<>>
    /\ result = NotRunning
    /\ wrapper = NotCalled

SpecFaults == InitFaults /\ [][Next]_vars

(***************************************************************************)
(* Specification of a call of the retry wrapper: retry_request_multi       *)
(***************************************************************************)
MaxRetries == 4
\* sleep(5)
RetryDelay == 5
\* @retry_request_multi(5) on overpass_call
OverpassRetries == 5

\* What a call of the wrapped function does: it returns a value, raises
\* HTTPError (overpass_call: a status other than 200), or raises another
\* exception (requests.post: no connection, a timeout).
Outcomes ==
    {[kind |-> "return", value |-> v] : v \in {"", "<osm/>", "{}"}}
    \cup {[kind |-> "raise", value |-> e] : e \in {"HTTPError", "ConnectionError", "Timeout"}}

\* the locals of wrapper at the `while`: num_retries is 0, nothing was
\* called and nothing slept
Called(max_retries) ==
    [status |-> "running", max_retries |-> max_retries, num_retries |-> 0,
     calls |-> <<>>, slept |-> 0, ret |-> None, exc |-> ""]

InitRetry ==
    /\ node = None
    /\ called = "none"
    /\ verdict = "pending"
    /\ area_keys = None
    /\ polygon_features = None
    /\ elements = <<>>
    /\ raise_on_failure = FALSE
    /\ topology_errors = FALSE
    /\ assembled = Pending
    /\ NoRun
    /\ wrapper \in {Called(n) : n \in (0..MaxRetries) \cup {OverpassRetries}}

\* the handler of that except clause, with the HTTPError raised again one
\* retry late
OnHTTPError_one_more(w) ==
    IF w.num_retries = w.max_retries + 1
    THEN [w EXCEPT !.status = "raised", !.exc = "HTTPError"]
    ELSE [w EXCEPT !.num_retries = @ + 1, !.slept = @ + RetryDelay]

\* except requests.exceptions.HTTPError: raise at the last retry, else
\* count the retry and sleep
OnHTTPError(w) ==
    IF w.num_retries = w.max_retries
    THEN [w EXCEPT !.status = "raised", !.exc = "HTTPError"]
    ELSE [w EXCEPT !.num_retries = @ + 1, !.slept = @ + RetryDelay]

\* the body of the while loop for one outcome of func(*args, **kwargs)
AfterCall(w, outcome) ==
    IF outcome.kind = "return"
    THEN [w EXCEPT !.status = "returned", !.ret = Some(outcome.value)]
    ELSE IF outcome.value = "HTTPError" THEN OnHTTPError(w)
    ELSE [w EXCEPT !.status = "raised", !.exc = outcome.value]

\* one turn of `while num_retries <= max_retries`
Attempt ==
    /\ wrapper.status = "running"
    /\ wrapper.num_retries <= wrapper.max_retries
    /\ \E outcome \in Outcomes :
        wrapper' = AfterCall([wrapper EXCEPT !.calls = Append(@, outcome)], outcome)
    /\ UNCHANGED <<classifier, assembler, run>>

NextRetry == Attempt

SpecRetry == InitRetry /\ [][NextRetry]_vars

(***************************************************************************)
(* Properties of the classifier                                            *)
(***************************************************************************)
\* the tables a call uses: the supplied one, or the default
RulesInUse == OrList(polygon_features, _default_polygon_features)
ExceptionsInUse == OrDict(area_keys, _default_area_keys)

TagIs(el, k, v) == Has(el, "tags") /\ k \in TagKeys(el.tags) /\ TagValue(el.tags, k) = v
HasTag(el, k) == Has(el, "tags") /\ k \in TagKeys(el.tags)

\* the geometry / node-id list of the element is open (first # last)
OpenGeometry(el) ==
    /\ Has(el, "geometry") /\ Len(el.geometry) > 0
    /\ ~is_same_coords(el.geometry[1], el.geometry[Len(el.geometry)])
OpenNodes(el) ==
    Has(el, "nodes") /\ Len(el.nodes) > 0 /\ el.nodes[1] # el.nodes[Len(el.nodes)]
ClosedNodes(el) ==
    Has(el, "nodes") /\ Len(el.nodes) > 0 /\ el.nodes[1] = el.nodes[Len(el.nodes)]

\* some tag of the element is flagged in the exception table in use
SomeTagFlagged(el) ==
    \E n \in 1..Len(el.tags) :
        /\ el.tags[n][1] \in DOMAIN ExceptionsInUse
        /\ el.tags[n][2] \in DOMAIN ExceptionsInUse[el.tags[n][1]]
        /\ ExceptionsInUse[el.tags[n][1]][el.tags[n][2]]

\* some tag of the element has a value that a blacklist rule on its key lists
SomeTagBlacklisted(el) ==
    \E n \in 1..Len(RulesInUse) :
        /\ RulesInUse[n].polygon = "blacklist"
        /\ RulesInUse[n].key \in TagKeys(el.tags)
        /\ TagValue(el.tags, RulesInUse[n].key) \in RulesInUse[n].values

\* C1: an element tagged area=no is never a polygon, whatever its other
\* tags, its closure state and the tables supplied.
C1_AreaNoIsNeverPolygon ==
    (called = "is_geometry_polygon" /\ TagIs(node, "area", "no")) => verdict = "False"

\* area=no together with type=multipolygon on a closed ring
C1_Witness ==
    /\ called = "is_geometry_polygon" /\ verdict = "False"
    /\ TagIs(node, "area", "no") /\ TagIs(node, "type", "multipolygon")
    /\ Has(node, "geometry") /\ ~OpenGeometry(node) /\ Len(node.geometry) > 0

NotAreaTag(t) == t[1] # "area"
WithoutAreaTag(el) == [tags |-> SelectSeq(el.tags, NotAreaTag)] @@ el

\* C2: area=yes always gives a polygon (blacklisted or excepted values and
\* open rings included); an area tag with another value changes nothing:
\* the outcome is that of the same element without the area tag.
C2_AreaYesIsPolygonOtherFallsThrough ==
    called = "is_geometry_polygon" =>
        /\ TagIs(node, "area", "yes") => verdict = "True"
        /\ (HasTag(node, "area") /\ TagValue(node.tags, "area") \notin {"yes", "no"})
              => verdict = is_geometry_polygon(WithoutAreaTag(node), area_keys, polygon_features)

\* area=yes on a blacklisted highway=steps with an open ring
C2_Witness ==
    /\ called = "is_geometry_polygon" /\ verdict = "True"
    /\ TagIs(node, "area", "yes") /\ TagIs(node, "highway", "steps")
    /\ SomeTagBlacklisted(node) /\ OpenGeometry(node)

\* area=unknown on a blacklisted highway=steps: the blacklist decides
C2_WitnessOther ==
    /\ called = "is_geometry_polygon" /\ verdict = "False"
    /\ TagIs(node, "area", "unknown") /\ TagIs(node, "highway", "steps")
    /\ SomeTagBlacklisted(node) /\ ~Has(node, "geometry") /\ ~Has(node, "nodes")

\* some tag of the element has its key in an "all" rule of the table in use
SomeTagAllRule(el) ==
    \E n \in 1..Len(RulesInUse) :
        RulesInUse[n].polygon = "all" /\ RulesInUse[n].key \in TagKeys(el.tags)

\* C4 as stated: a closed way with a tag under an "all" rule is an area for
\* every combination of its other tags, every rule order and every
\* exception table.
C4_AllRuleAlwaysArea ==
    (/\ called = "is_geometry_polygon"
     /\ ClosedNodes(node) /\ Has(node, "tags") /\ SomeTagAllRule(node))
        => verdict = "True"

\* C4 amended: a closed way (inline geometry, if any, non-empty and closed)
\* with a tag under an "all" rule is an area in every rule order, provided
\* area is not "no", no tag value is listed by a blacklist rule on its key,
\* and no tag is flagged in the area-exception table.
C4_AllRuleAreaUnlessOverridden ==
    (/\ called = "is_geometry_polygon"
     /\ ClosedNodes(node) /\ Has(node, "tags") /\ SomeTagAllRule(node)
     /\ Has(node, "geometry") => (Len(node.geometry) > 0 /\ ~OpenGeometry(node))
     /\ ~TagIs(node, "area", "no")
     /\ ~SomeTagBlacklisted(node)
     /\ ~SomeTagFlagged(node))
        => verdict = "True"

\* a closed way building=yes + highway=trunk, the highway blacklist rule
\* ahead of the building "all" rule, an exception table that flags neither
C4_Witness ==
    /\ called = "is_geometry_polygon" /\ verdict = "True"
    /\ ClosedNodes(node) /\ ~Has(node, "geometry")
    /\ TagIs(node, "building", "yes") /\ TagIs(node, "highway", "trunk")
    /\ ~HasTag(node, "area") /\ ~HasTag(node, "type")
    /\ Len(polygon_features) = 1
    /\ polygon_features[1] = << [key |-> "highway", polygon |-> "blacklist", values |-> {"steps"}],
                                [key |-> "building", polygon |-> "all"] >>
    /\ Len(area_keys) = 1 /\ DOMAIN area_keys[1] = {"building", "highway"}
    /\ ~SomeTagFlagged(node)

\* C5 as stated: a tag whose value a blacklist rule on its key lists makes
\* the rule-table evaluation return False, whatever the other tags match
\* and whatever the order of the rules.
C5_BlacklistPrecedence ==
    (/\ called = "is_geometry_polygon_without_exceptions"
     /\ Has(node, "tags") /\ SomeTagBlacklisted(node))
        => verdict = "False"

\* key k has both a whitelist and a blacklist rule in the table in use
BothModes(k) ==
    /\ \E n \in 1..Len(RulesInUse) : RulesInUse[n].key = k /\ RulesInUse[n].polygon = "whitelist"
    /\ \E n \in 1..Len(RulesInUse) : RulesInUse[n].key = k /\ RulesInUse[n].polygon = "blacklist"
\* the value of tag k is listed by some rule on k
Listed(el, k) ==
    \E n \in 1..Len(RulesInUse) :
        /\ RulesInUse[n].key = k /\ RulesInUse[n].polygon # "all"
        /\ TagValue(el.tags, k) \in RulesInUse[n].values
\* k is the only tag key of the element that any rule names
OnlyRuleTag(el, k) ==
    /\ k \in TagKeys(el.tags)
    /\ \A n \in 1..Len(RulesInUse) : RulesInUse[n].key \in TagKeys(el.tags) => RulesInUse[n].key = k

\* C6 as stated: on a key with both a whitelist and a blacklist rule, a
\* value in neither list is no polygon signal (the evaluation returns False
\* when that is the only rule-relevant tag); a whitelisted value gives True.
C6_NeitherListIsNotPolygon ==
    called = "is_geometry_polygon_without_exceptions" =>
        \A k \in DOMAIN TagDomain :
            (Has(node, "tags") /\ BothModes(k) /\ OnlyRuleTag(node, k)) =>
                /\ ~Listed(node, k) => verdict = "False"
                /\ (\E n \in 1..Len(RulesInUse) :
                        /\ RulesInUse[n].key = k /\ RulesInUse[n].polygon = "whitelist"
                        /\ TagValue(node.tags, k) \in RulesInUse[n].values) => verdict = "True"

\* the evaluation reaches the rule table and the table says "polygon"
RuleTableSaysPolygon(el) ==
    /\ Has(el, "tags")
    /\ ~TagIs(el, "area", "no") /\ ~TagIs(el, "area", "yes")
    /\ ~TagIs(el, "type", "multipolygon")
    /\ Has(el, "geometry") => (Len(el.geometry) > 0 /\ ~OpenGeometry(el))
    /\ Has(el, "nodes") => ClosedNodes(el)
    /\ is_geometry_polygon_without_exceptions(el, polygon_features)

\* C7 as stated: when the rule table says "polygon", the result is "not an
\* area" exactly if some tag, whichever its position, is flagged in the
\* area-exception table.
C7_AnyFlaggedTagOverrides ==
    (called = "is_geometry_polygon" /\ RuleTableSaysPolygon(node))
        => verdict = Bool(~SomeTagFlagged(node))

\* C3 as stated: with tags, area neither yes nor no and type not
\* multipolygon, an open inline geometry or an open node-id list makes
\* is_geometry_polygon return False under every table, and way_to_shape
\* builds a LineString from the way's coordinates.
C3_OpenRingIsLine ==
    (/\ Has(node, "tags")
     /\ ~TagIs(node, "area", "yes") /\ ~TagIs(node, "area", "no")
     /\ ~TagIs(node, "type", "multipolygon")
     /\ OpenGeometry(node) \/ OpenNodes(node))
        => /\ called = "is_geometry_polygon" => verdict = "False"
           /\ called = "way_to_shape" => verdict = "LineString"


(***************************************************************************)
(* Properties of the multipolygon assembly                                 *)
(***************************************************************************)
Adjacent(c, d) ==
    \/ c[1] = d[1] /\ c[2] - d[2] \in {-1, 1}
    \/ c[2] = d[2] /\ c[1] - d[1] \in {-1, 1}
RECURSIVE Flood(_, _)
\* the cells of the region connected to the seed
Flood(seed, region) ==
    LET next == seed \cup {c \in region : \E d \in seed : Adjacent(c, d)}
    IN  IF next = seed THEN seed ELSE Flood(next, region)
RECURSIVE Components(_)
Components(region) ==
    IF region = {} THEN {}
    ELSE LET comp == Flood({CHOOSE c \in region : TRUE}, region)
         IN  {comp} \cup Components(region \ comp)
OnBorder(c) == c[1] \in {0, GridN - 1} \/ c[2] \in {0, GridN - 1}
\* the outer shells and the holes of a region
Shells(cells) == Components(cells)
Holes(cells) ==
    LET outside == Cells \ cells
    IN  Components(outside \ Flood({c \in outside : OnBorder(c)}, outside))

TheMembers == elements[1].members
MemberCoords(m) == GeometryCoords(m.geometry)
Closed(line) == line[1] = Last(line)
HasRun == assembled # Pending

\* the members are [outer A, outer B, inner C, outer D], A, B and D making
\* up one closed ring and C a closed ring inside it
NonContiguousOuters ==
    /\ Len(TheMembers) = 4
    /\ \A k \in 1..4 : TheMembers[k].type = "way"
    /\ [k \in 1..4 |-> TheMembers[k].role] = <<"outer", "outer", "inner", "outer">>
    /\ LET ring == linemerge(<<MemberCoords(TheMembers[1]), MemberCoords(TheMembers[2]),
                               MemberCoords(TheMembers[4])>>)
           hole == MemberCoords(TheMembers[3])
       IN  /\ Len(ring) = 1 /\ Closed(ring[1]) /\ RingIsValid(ring[1])
           /\ Closed(hole) /\ RingIsValid(hole)
           /\ RingCells(hole) # {}
           /\ \A c \in RingCells(hole) :
                \A d \in Cells : (d = c \/ Adjacent(c, d) \/ (c[1] - d[1] \in {-1, 1} /\ c[2] - d[2] \in {-1, 1}))
                                 => d \in RingCells(ring[1])

\* C8: a relation with members [outer A, outer B, inner C, outer D], A/B/D
\* one closed ring and C a ring inside it, is assembled into a MultiPolygon
\* of exactly one shell with exactly one hole.
C8_NonContiguousOutersOneShellOneHole ==
    (HasRun /\ NonContiguousOuters) =>
        /\ assembled.exc = ""
        /\ assembled.shape.type = "MultiPolygon"
        /\ Cardinality(Shells(assembled.shape.cells)) = 1
        /\ Cardinality(Holes(assembled.shape.cells)) = 1

\* the usable members: what the member loop collects in non-strict mode
UsableShapes == MultipolygonMembers(elements[1], 1, elements, 1, <<>>, FALSE, 0).shapes
OuterRuns == {n \in RunStarts(UsableShapes) : UsableShapes[n].role = "outer"}
\* geometry of the run that starts at position n of the usable members
RunGeometry(n) == _convert_lines_to_multipolygon(Run(UsableShapes, n), FALSE).geom
Usable(geom) == geom.kind = "MultiPolygon" /\ geom.valid
\* no base: no usable member, no run of role "outer", or the first such
\* run has no valid geometry
NoBase ==
    \/ UsableShapes = <<>>
    \/ OuterRuns = {}
    \/ ~Usable(RunGeometry(Min(OuterRuns)))
\* the relation call yields no shape: None, or Exception in strict mode
Refused ==
    /\ assembled.shape = NoShape
    /\ assembled.exc = IF raise_on_failure THEN "Exception" ELSE ""

\* C9: the base is the first run of role "outer"; without usable members,
\* without an "outer" run, or with a base run whose geometry is not valid,
\* the relation yields no shape (raises in strict mode), so a geometry is
\* never built from inner or other-role runs alone.
C9_NoBaseNoShape ==
    HasRun => /\ NoBase => Refused
              /\ assembled.shape # NoShape =>
                    /\ OuterRuns # {}
                    /\ Usable(RunGeometry(Min(OuterRuns)))
\* the first "outer" run is invalid and a later "outer" run is valid: the
\* relation is refused
C9_Witness ==
    /\ HasRun /\ ~raise_on_failure /\ Refused
    /\ OuterRuns # {}
    /\ RunGeometry(Min(OuterRuns)).kind = "MultiPolygon"
    /\ ~RunGeometry(Min(OuterRuns)).valid
    /\ \E n \in OuterRuns : Usable(RunGeometry(n))
    /\ \E n \in RunStarts(UsableShapes) : UsableShapes[n].role # "outer"

\* C18: in non-strict mode a member or a run that cannot be used is
\* skipped and the relation is assembled from the rest: with a first
\* "outer" run of valid geometry the relation yields a shape.
C18_OnlyBaseIsFatal ==
    (HasRun /\ ~raise_on_failure /\ ~NoBase) => assembled.shape # NoShape

(***************************************************************************)
(* Properties of a conversion run                                          *)
(***************************************************************************)
\* the shape of the element is in the list
ShapeOf(el, shs) ==
    \E n \in 1..Len(shs) :
        /\ Has(shs[n].properties, "id") /\ shs[n].properties.id = el.id
        /\ shs[n].properties.type = el.type
\* the relation is an area relation and the way is one of its way members
MultipolygonMemberOf(way, rel) ==
    /\ rel.type = "relation" /\ ~Has(rel, "center") /\ Has(rel, "members")
    /\ is_geometry_polygon(rel, None, None) = "True"
    /\ \E k \in 1..Len(rel.members) :
        rel.members[k].type = "way" /\ rel.members[k].ref = way.id
\* top-level ways that are members of a multipolygon relation of the
\* document, both converted by the run
ConsumedWays ==
    {i \in 1..Len(elements) :
        /\ elements[i].type = "way"
        /\ ShapeOf(elements[i], all_shapes)
        /\ \E j \in 1..Len(elements) :
            /\ MultipolygonMemberOf(elements[i], elements[j])
            /\ ShapeOf(elements[j], all_shapes)}

\* C10: a top-level way that is a member of a multipolygon relation
\* converted in the same run, its geometry inline in the member entry or
\* resolved through the index, is absent from the output with
\* filter_used_refs and present without.
C10_MemberWaysFiltered ==
    result.status = "returned" =>
        \A i \in ConsumedWays :
            ShapeOf(elements[i], result.shapes) <=> ~filter_used_refs

(***************************************************************************)
(* Properties of the usage marks and of the filter                         *)
(***************************************************************************)
\* the relation is a non-area relation and the way is one of its way members
MultilineMemberOf(way, rel) ==
    /\ rel.type = "relation" /\ ~Has(rel, "center") /\ Has(rel, "members")
    /\ is_geometry_polygon(rel, None, None) = "False"
    /\ \E k \in 1..Len(rel.members) :
        rel.members[k].type = "way" /\ rel.members[k].ref = way.id
\* top-level ways that are way members of a multiline relation of the
\* document, both converted by the run
ConsumedByLines ==
    {i \in 1..Len(elements) :
        /\ elements[i].type = "way"
        /\ ShapeOf(elements[i], all_shapes)
        /\ \E j \in 1..Len(elements) :
            /\ MultilineMemberOf(elements[i], elements[j])
            /\ ShapeOf(elements[j], all_shapes)}

\* C11: with filter_used_refs, a top-level way that is a way member of a
\* multiline (non-area) relation converted in the same run is absent from
\* the returned list.
C11_MultilineMemberWaysFiltered ==
    (result.status = "returned" /\ filter_used_refs) =>
        \A i \in ConsumedByLines : ~ShapeOf(elements[i], result.shapes)

\* the element a shape was made from carries a usage mark
ElementMarked(sh) ==
    \E i \in 1..Len(elements) :
        /\ elements[i].type = sh.properties.type
        /\ elements[i].id = sh.properties.id
        /\ Has(elements[i], "used")
Unmarked(shs) == SelectSeq(shs, LAMBDA sh : ~ElementMarked(sh))

\* C12: the list returned with filter_used_refs is the list returned
\* without it (all the shapes of the run, which does not read the flag
\* before its end) less the shapes whose element carries a usage mark, in
\* the same order; without the flag every shape is returned.
C12_FilterRoundTrip ==
    result.status = "returned" =>
        result.shapes = IF filter_used_refs THEN Unmarked(all_shapes) ELSE all_shapes

\* C13: with filter_used_refs a shape of the run is missing from the
\* returned list only if the element of its own type and id carries a
\* usage mark.
C13_UsagePerTypeAndId ==
    (result.status = "returned" /\ filter_used_refs) =>
        \A n \in 1..Len(all_shapes) :
            ~ShapeOf(all_shapes[n].properties, result.shapes) => ElementMarked(all_shapes[n])

(***************************************************************************)
(* Properties of failures                                                  *)
(***************************************************************************)
\* the run is about to convert the element at the cursor
Converting == result = Running /\ cursor <= Len(elements) /\ cursor' = cursor + 1
\* a way that declares the id of a node that is not in the index
DeclaresMissingNode(el, els) ==
    /\ el.type = "way" /\ Has(el, "nodes")
    /\ \E n \in 1..Len(el.nodes) : ~InIndex(_get_ref_name("node", el.nodes[n]), els)
\* and whose coordinates are those of its nodes: it has neither a center
\* nor inline geometry
ResolvedByNodes(el) ==
    ~Has(el, "center") /\ ~(Has(el, "geometry") /\ Len(el.geometry) > 0)
\* the way at the cursor gives no shape; the run raises in strict mode
\* and goes on otherwise
NoFeatureStep ==
    /\ all_shapes' = all_shapes
    /\ result' = IF raise_on_failure THEN Raised("Exception") ELSE Running

\* C14 as stated: a way that declares node ids of which one is absent from
\* the index produces no feature; the run goes on in non-strict mode and
\* raises in strict mode.
C14_MissingNodeNoFeature ==
    [][(Converting /\ DeclaresMissingNode(elements[cursor], elements)) => NoFeatureStep]_vars

\* C14 amended: the same of a way that has neither a center nor inline
\* geometry, the two sources of coordinates that are used before the nodes.
C14_MissingNodeNoFeatureByNodes ==
    [][(Converting /\ DeclaresMissingNode(elements[cursor], elements)
                   /\ ResolvedByNodes(elements[cursor])) => NoFeatureStep]_vars

\* a non-strict run returned the feature of an element that follows a way
\* with a missing node, and none of that way
C14_Witness ==
    /\ result.status = "returned" /\ ~raise_on_failure
    /\ \E i, j \in 1..Len(elements) :
        /\ i < j
        /\ DeclaresMissingNode(elements[i], elements) /\ ResolvedByNodes(elements[i])
        /\ ~ShapeOf(elements[i], all_shapes)
        /\ ShapeOf(elements[j], result.shapes)

\* C15: a non-strict conversion never raises: it returns a list whatever
\* the document holds.
C15_NonStrictNeverRaises ==
    ~raise_on_failure => result.status # "raised"

\* the entry the key of a member or stub resolves to, if any
Resolved(el, els) == InIndex(_get_ref_name(el.type, el.ref), els)
Target(el, els) == els[_get_ref(_get_ref_name(el.type, el.ref), els)]
\* the members a relation or relation stub iterates
MembersOf(rel, els) ==
    IF Has(rel, "members") THEN rel.members
    ELSE IF Resolved(rel, els) THEN Target(rel, els).members ELSE <<>>

RECURSIVE Faulty(_, _, _)
\* The element, or a member of it at any depth, has one of the errors of
\* the strict mode: a reference that is not in the index, fewer than two
\* coordinates, a member of an unsupported type, or a relation that cannot
\* be assembled (an area without outer member, a relation with no line).
\* `top` tells a top-level relation, whose tags classify it, from a nested
\* member, which is a stub without tags and is built as lines.
Faulty(el, els, top) ==
    IF el.type = "node" \/ Has(el, "center") THEN FALSE
    ELSE IF el.type = "way"
    THEN IF Has(el, "geometry") /\ Len(el.geometry) > 0 THEN Len(el.geometry) < 2
         ELSE IF Has(el, "nodes") /\ Len(el.nodes) > 0
              THEN DeclaresMissingNode(el, els) \/ Len(el.nodes) < 2
         ELSE IF Has(el, "ref")
              THEN ~Resolved(el, els) \/ Faulty(Target(el, els), els, FALSE)
         ELSE TRUE
    ELSE LET members == MembersOf(el, els)
             area == top /\ TagValue(el.tags, "type") = "multipolygon"
         IN  \/ ~Has(el, "members") /\ ~Resolved(el, els)
             \/ Len(members) = 0
             \/ \E k \in 1..Len(members) :
                    \/ members[k].type = "node"
                    \/ members[k].type = "relation" /\ area
                    \/ Faulty(members[k], els, FALSE)
             \/ area /\ \A k \in 1..Len(members) : members[k].role # "outer"

\* positions of the faulty elements of the document
FaultyElements == {i \in 1..Len(elements) : Faulty(elements[i], elements, TRUE)}

\* C16: in strict mode the run raises at the first element that has an
\* unresolved reference, a degenerate geometry, a member of an unsupported
\* type or a failing assembly, in the element or in a member at any depth:
\* once the run is past such an element it has raised, the cursor is just
\* past the first of them, and every element before it gave a shape.
C16_StrictRaisesAtFirstError ==
    (raise_on_failure /\ result.status # "none") =>
        /\ \A i \in FaultyElements : i < cursor =>
            /\ result = Raised("Exception")
            /\ cursor = i + 1
        /\ result.status = "returned" => FaultyElements = {}
        /\ Len(all_shapes) = IF result.status = "raised" THEN cursor - 2 ELSE cursor - 1

\* a strict run that raised on the unresolved way of a relation that is
\* itself the member of the relation at the cursor, after the feature of
\* an element before it
C16_Witness ==
    /\ raise_on_failure /\ result = Raised("Exception")
    /\ Len(all_shapes) = 1
    /\ elements[cursor - 1].type = "relation"
    /\ \E k \in 1..Len(elements[cursor - 1].members) :
        LET member == elements[cursor - 1].members[k] IN
        /\ member.type = "relation" /\ Resolved(member, elements)
        /\ \E n \in 1..Len(Target(member, elements).members) :
            LET nested == Target(member, elements).members[n] IN
            nested.type = "way" /\ ~Resolved(nested, elements)

\* the document as it was handed to the run: the elements and their
\* members without the marks of the run
Without(d, k) == [f \in (DOMAIN d) \ {k} |-> d[f]]
Clean(el) ==
    IF Has(el, "members")
    THEN [Without(el, "used") EXCEPT !.members = [k \in 1..Len(@) |-> Without(@[k], "used")]]
    ELSE Without(el, "used")
Original == [i \in 1..Len(elements) |-> Clean(elements[i])]
\* the document less its i-th element
Less(data, i) == [k \in 1..(Len(data) - 1) |-> IF k < i THEN data[k] ELSE data[k + 1]]
\* positions of the elements the run made no shape of
FailedElements == {i \in 1..Len(elements) : ~ShapeOf(elements[i], all_shapes)}

\* C17: in non-strict mode an element whose conversion fails emits no
\* feature and leaves the features of the others as they are: the list
\* returned is the list returned for the document without that element.
C17_FailuresAreLocal ==
    (result.status = "returned" /\ ~raise_on_failure) =>
        \A i \in FailedElements :
            result = _json2shapes(Less(Original, i), filter_used_refs,
                                  area_keys, polygon_features, FALSE)

(***************************************************************************)
(* Properties of the configuration                                         *)
(***************************************************************************)
\* the shape the run made of the element
TheShape(el) ==
    all_shapes[CHOOSE n \in 1..Len(all_shapes) :
                    all_shapes[n].properties.id = el.id
                    /\ all_shapes[n].properties.type = el.type]
\* the classification of the element under the tables handed to the run
IsArea(el) == is_geometry_polygon(el, area_keys, polygon_features) = "True"

\* C19: the tables handed to the run classify every element: a way the
\* run converted is a Polygon exactly if it is an area under these tables,
\* and a relation is a MultiPolygon exactly if it is one.
C19_SuppliedTablesGovern ==
    \A i \in 1..Len(elements) :
        ShapeOf(elements[i], all_shapes) =>
            /\ elements[i].type = "way" =>
                (TheShape(elements[i]).type = "Polygon" <=> IsArea(elements[i]))
            /\ elements[i].type = "relation" =>
                (TheShape(elements[i]).type = "MultiPolygon" <=> IsArea(elements[i]))

(***************************************************************************)
(* Properties of the center summary                                        *)
(***************************************************************************)
\* a way or relation with a center
HasCenter(el) == el.type \in {"way", "relation"} /\ Has(el, "center")
\* what the element names is not all in the index
Unresolvable(el, els) ==
    \/ DeclaresMissingNode(el, els)
    \/ /\ Has(el, "members")
       /\ \E k \in 1..Len(el.members) : ~Resolved(el.members[k], els)

\* C20: a way or relation with a center converts to the Point at
\* (center.lon, center.lat) with the element's properties, in both modes
\* and whatever its nodes or members are, and the step sets no usage mark.
C20_CenterIsPoint ==
    [][(Converting /\ HasCenter(elements[cursor])) =>
            /\ all_shapes' = Append(all_shapes,
                    [type |-> "Point",
                     coords |-> <<elements[cursor].center.lon, elements[cursor].center.lat>>,
                     properties |-> get_element_props(elements[cursor])])
            /\ result' = Running
            /\ elements' = elements]_vars

\* a strict run returned the Points of a way and of a relation with a
\* center whose node and member way are not in the document, together
\* with the unmarked node the way names
C20_Witness ==
    /\ result.status = "returned" /\ raise_on_failure /\ filter_used_refs
    /\ Len(result.shapes) = 3
    /\ \E i, j, n \in 1..Len(elements) :
        /\ elements[i].type = "way" /\ elements[j].type = "relation"
        /\ HasCenter(elements[i]) /\ Unresolvable(elements[i], elements)
        /\ HasCenter(elements[j]) /\ Unresolvable(elements[j], elements)
        /\ elements[n].type = "node" /\ elements[n].id \in {elements[i].nodes[k] : k \in 1..Len(elements[i].nodes)}

(***************************************************************************)
(* Properties of the features                                              *)
(***************************************************************************)
OptionalProps == {"tags", "nodes", "timestamp", "user", "uid", "version"}
\* the feature the claim gives a node
NodeFeature(el) ==
    [type |-> "Feature",
     geometry |-> [type |-> "Point", coordinates |-> <<el.lon, el.lat>>],
     properties |-> [k \in {"type", "id"} \cup ((DOMAIN el) \cap OptionalProps) |-> el[k]]]
\* positions of the nodes the run is past
NodesDone == {i \in 1..Len(elements) : i < cursor /\ elements[i].type = "node"}

\* C21: the feature of a node is a Point at [lon, lat] whose properties
\* are type and id and those of tags, nodes, timestamp, user, uid and
\* version that the node carries, and no other key; every node the run
\* is past has exactly one shape, which gives that feature, and so does
\* each node of the returned list.
C21_NodeFeature ==
    /\ \A i \in NodesDone :
        \E n \in 1..Len(all_shapes) :
            /\ shape_to_feature(all_shapes[n]) = NodeFeature(elements[i])
            /\ \A m \in 1..Len(all_shapes) :
                all_shapes[m].properties.type = "node" => m = n
    /\ result.status = "returned" =>
        \A n \in 1..Len(result.shapes) :
            result.shapes[n].properties.type = "node" =>
                \E i \in NodesDone :
                    _json2geojson(result.shapes).features[n] = NodeFeature(elements[i])

\* a run returned the feature of a node that carries a usage mark, tags,
\* a version and a key that is no property
C21_Witness ==
    /\ result.status = "returned" /\ Len(result.shapes) > 0
    /\ \E i \in NodesDone :
        /\ {"used", "tags", "version", "changeset"} \subseteq DOMAIN elements[i]
        /\ "timestamp" \notin DOMAIN elements[i]
        /\ \E n \in 1..Len(result.shapes) :
            shape_to_feature(result.shapes[n]) = NodeFeature(elements[i])

(***************************************************************************)
(* Properties of the multiline relations                                   *)
(***************************************************************************)
\* positions of the relations without center that the run is past and
\* that the classifier does not make areas
LineRelations ==
    {i \in 1..Len(elements) :
        /\ i < cursor /\ elements[i].type = "relation" /\ ~Has(elements[i], "center")
        /\ is_geometry_polygon(elements[i], None, None) = "False"}

\* C22: a relation that is not an area yields no shape exactly when none
\* of its members gives a line (the run raises in strict mode), and a
\* MultiLineString otherwise, never a shape of another type.
C22_LinesAreMultiLineString ==
    \A i \in LineRelations :
        LET none == \A k \in 1..Len(elements[i].members) :
                        Faulty(elements[i].members[k], elements, FALSE)
        IN  /\ none => /\ ~ShapeOf(elements[i], all_shapes)
                       /\ raise_on_failure => result = Raised("Exception")
            /\ (~none /\ result.status # "raised") =>
                /\ ShapeOf(elements[i], all_shapes)
                /\ TheShape(elements[i]).type = "MultiLineString"

(***************************************************************************)
(* Properties of the retry wrapper                                         *)
(***************************************************************************)
\* the requests made so far, and those that raised HTTPError
Requests == Len(wrapper.calls)
IsHTTPError(outcome) == outcome.kind = "raise" /\ outcome.value = "HTTPError"
LastCall == wrapper.calls[Requests]

\* C23: the wrapped function is called at most max_retries + 1 times; every
\* call but the last raised HTTPError and was followed by one sleep of 5
\* seconds; the wrapper returns what the first call that does not raise
\* returns, raises the HTTPError of call max_retries + 1, and raises any
\* other exception at once; it is running otherwise.  Nothing is called
\* after it returned or raised.
C23_BoundedRetry ==
    /\ Requests <= wrapper.max_retries + 1
    /\ \A k \in 1..(Requests - 1) : IsHTTPError(wrapper.calls[k])
    /\ wrapper.slept = RetryDelay * wrapper.num_retries
    /\ Requests > 0 =>
        /\ LastCall.kind = "return" =>
            /\ wrapper.status = "returned" /\ wrapper.ret = Some(LastCall.value)
            /\ wrapper.num_retries = Requests - 1
        /\ (LastCall.kind = "raise" /\ ~IsHTTPError(LastCall)) =>
            /\ wrapper.status = "raised" /\ wrapper.exc = LastCall.value
            /\ wrapper.num_retries = Requests - 1
        /\ IsHTTPError(LastCall) =>
            IF Requests = wrapper.max_retries + 1
            THEN /\ wrapper.status = "raised" /\ wrapper.exc = "HTTPError"
                 /\ wrapper.num_retries = wrapper.max_retries
            ELSE wrapper.status = "running" /\ wrapper.num_retries = Requests
    /\ Requests = 0 => wrapper.status = "running"
    /\ wrapper.status # "running" => ~ENABLED Attempt

\* overpass_call raised the HTTPError of its sixth request, after five
\* sleeps
C23_Witness ==
    /\ wrapper.status = "raised" /\ wrapper.exc = "HTTPError"
    /\ wrapper.max_retries = OverpassRetries
    /\ Requests = OverpassRetries + 1
    /\ wrapper.slept = RetryDelay * OverpassRetries

(***************************************************************************)
(* Properties of the combination of the runs                               *)
(***************************************************************************)
\* every run of the usable members has a valid geometry
AllRunsUsable == \A n \in RunStarts(UsableShapes) : Usable(RunGeometry(n))
RolesOf(shapes) == {shapes[n].role : n \in 1..Len(shapes)}
\* the base run
BaseRun == Min(OuterRuns)

RECURSIVE FoldedFrom(_, _)
\* the region folded with the runs from position n on: the union with a
\* run of role "outer", the difference with a run of role "inner"
FoldedFrom(n, cells) ==
    IF n > Len(UsableShapes) THEN cells
    ELSE FoldedFrom(RunEnd(UsableShapes, n) + 1,
                    IF UsableShapes[n].role = "inner"
                    THEN cells \ RunGeometry(n).cells
                    ELSE cells \cup RunGeometry(n).cells)

\* C24: the relation's region is the base run folded, in source order,
\* with the runs that follow it, each once; the runs before the base are
\* not applied.
C24_FoldOfFollowingRuns ==
    (/\ HasRun /\ assembled.exc = "" /\ ~NoBase /\ AllRunsUsable
     /\ RolesOf(UsableShapes) \subseteq {"outer", "inner"}) =>
        /\ assembled.shape.type = "MultiPolygon"
        /\ assembled.shape.cells =
             FoldedFrom(RunEnd(UsableShapes, BaseRun) + 1, RunGeometry(BaseRun).cells)

RECURSIVE CombinedFrom(_, _)
\* the region combined with every run but the base, from position n on: a
\* run of role "inner" is subtracted, a run of any other role is added
CombinedFrom(n, cells) ==
    IF n > Len(UsableShapes) THEN cells
    ELSE CombinedFrom(RunEnd(UsableShapes, n) + 1,
                      IF n = BaseRun THEN cells
                      ELSE IF UsableShapes[n].role = "inner"
                      THEN cells \ RunGeometry(n).cells
                      ELSE cells \cup RunGeometry(n).cells)

\* C27: only a run of role "outer" is the base; every other run is
\* combined with it, in source order: a run of role "inner" is subtracted,
\* a run of any other role ("outer", empty or unknown) is added.
C27_OnlyInnerSubtracted ==
    HasRun =>
        /\ assembled.shape # NoShape => OuterRuns # {}
        /\ (assembled.exc = "" /\ ~NoBase /\ AllRunsUsable) =>
              /\ assembled.shape.type = "MultiPolygon"
              /\ assembled.shape.cells = CombinedFrom(1, RunGeometry(BaseRun).cells)
\* a run of role "inner" takes a region out of the base, and a later run of
\* empty role, which is no base, puts it back
C27_Witness ==
    /\ HasRun /\ assembled.exc = "" /\ assembled.shape # NoShape
    /\ \E m, n \in RunStarts(UsableShapes) :
          /\ BaseRun < m /\ m < n
          /\ UsableShapes[m].role = "inner"
          /\ UsableShapes[n].role = ""
          /\ RunGeometry(m).cells # {}
          /\ RunGeometry(m).cells \subseteq RunGeometry(BaseRun).cells
          /\ RunGeometry(n).cells = RunGeometry(m).cells
          /\ RunGeometry(n).cells \subseteq assembled.shape.cells

(***************************************************************************)
(* Properties of the ways that refer to ways                               *)
(***************************************************************************)
\* C25: the resolution of `ref` ends with a shape or with a failure (no
\* shape, Exception in strict mode), also for a way that refers to itself
\* or to a chain of ways that leads back to it: the recursion never runs
\* into the interpreter's limit.
C25_RefResolutionTerminates ==
    /\ result.exc # "RecursionError"
    /\ result.status = "raised" => (raise_on_failure /\ result.exc = "Exception")

(***************************************************************************)
(* Properties of the input records                                         *)
(***************************************************************************)
\* C26: the run leaves the element records as they were handed to it,
\* whether it is under way, returned or raised: none of them, and no
\* member entry, has a key it did not have (the documents carry no `used`
\* key at the call).
C26_InputUnchanged == elements = Original

(***************************************************************************)
(* Properties of the grouping of the members                               *)
(***************************************************************************)
\* the member is skipped in non-strict mode: it is no way, or its way is
\* not built
IsSkipped(member) ==
    \/ member.type # "way"
    \/ way_to_shape(member, elements, None, None, FALSE, 0).shape = NoShape
IsUsable(member) == ~IsSkipped(member)
UsableMembers == SelectSeq(TheMembers, IsUsable)
\* the first positions of the maximal blocks of consecutive members of the
\* same role
BlockStarts(members) ==
    {n \in 1..Len(members) : n = 1 \/ members[n].role # members[n - 1].role}
\* the relation without the members that are skipped
WithoutSkipped == [elements[1] EXCEPT !.members = UsableMembers]
Outcome(made) == [shape |-> made.shape, exc |-> made.exc]

\* C28: the runs are formed of the usable members only: the shapes that
\* are grouped are those of the members that are no skipped ones, in
\* source order; the runs are the maximal blocks of consecutive usable
\* members of the same role, so that adjacent runs differ in role and two
\* members of the same role with only skipped members between them are in
\* one run; the relation yields what it yields without the skipped members.
C28_RunsOfUsableMembers ==
    (HasRun /\ ~raise_on_failure) =>
        LET groups == Groups(UsableShapes, 1, FALSE) IN
        /\ Len(UsableShapes) = Len(UsableMembers)
        /\ \A n \in 1..Len(UsableShapes) :
              /\ UsableShapes[n].ref = UsableMembers[n].ref
              /\ UsableShapes[n].role = UsableMembers[n].role
        /\ Len(groups) = Cardinality(BlockStarts(UsableMembers))
        /\ \A i \in 1..(Len(groups) - 1) : groups[i].role # groups[i + 1].role
        /\ \A n \in BlockStarts(UsableMembers) :
              \A k \in n..RunEnd(UsableShapes, n) : UsableMembers[k].role = UsableMembers[n].role
        /\ assembled = Outcome(relation_to_shape(WithoutSkipped, 1, <<WithoutSkipped>>, FALSE, 0))
\* two "outer" arcs that close a ring only together have only skipped
\* members between them, a way and a node of role "inner": they are one
\* run, and the relation has the shape of the ring
C28_Witness ==
    /\ HasRun /\ ~raise_on_failure /\ assembled.shape # NoShape
    /\ Len(TheMembers) = 4
    /\ TheMembers[1].role = "outer" /\ TheMembers[4].role = "outer"
    /\ IsSkipped(TheMembers[2]) /\ TheMembers[2].type = "way"
    /\ IsSkipped(TheMembers[3]) /\ TheMembers[3].type = "node"
    /\ Len(Groups(UsableShapes, 1, FALSE)) = 1
    /\ Len(UsableShapes) = 2

(***************************************************************************)
(* Properties of the order of the returned shapes                          *)
(***************************************************************************)
\* the (type, id) of the elements and of the shapes, in their order
ElementKeys == [i \in 1..Len(elements) |-> <<elements[i].type, elements[i].id>>]
ShapeKeys(shs) ==
    [n \in 1..Len(shs) |-> <<shs[n].properties.type, shs[n].properties.id>>]
\* s is t with some of its entries left out
IsSubsequence(s, t) ==
    \E f \in [1..Len(s) -> 1..Len(t)] :
        /\ \A n \in 1..Len(s) : t[f[n]] = s[n]
        /\ \A m, n \in 1..Len(s) : m < n => f[m] < f[n]

\* C29: with and without the filter, the shapes collected and the shapes
\* returned are those of input elements, at most one for each element, in
\* the order of the input: their (type, id) are a subsequence of those of
\* the elements, so that no member of a relation has a shape of its own
\* unless it is an element of the input.
C29_ShapesInInputOrder ==
    /\ IsSubsequence(ShapeKeys(all_shapes), SubSeq(ElementKeys, 1, cursor - 1))
    /\ result.status = "returned" => IsSubsequence(ShapeKeys(result.shapes), ElementKeys)
\* three elements, the second a way that is a member of a relation: with
\* the filter the first and the third are returned, in that order; the
\* member written into a relation is no shape of the result
C29_Witness ==
    /\ result.status = "returned" /\ filter_used_refs
    /\ Len(elements) = 3 /\ Len(all_shapes) = 3
    /\ ShapeKeys(result.shapes) = <<ElementKeys[1], ElementKeys[3]>>
    /\ elements[2].type = "way"
    /\ \E i \in {1, 3} : /\ elements[i].type = "relation"
                         /\ elements[i].members[1].ref = elements[2].id

(***************************************************************************)
(* Properties of empty tables                                              *)
(***************************************************************************)
\* the table argument, an empty table taken for an omitted one
EmptyAsOmitted(opt) == IF Len(opt) = 1 /\ opt[1] \in {<<>>, Dict0} THEN None ELSE opt

\* C30: a classifier call with polygon_features=[] or area_keys={} has the
\* outcome of the call with that argument omitted: the built-in table is
\* used in its place.
C30_EmptyTableIsOmitted ==
    /\ called = "is_geometry_polygon" =>
          verdict = is_geometry_polygon(node, EmptyAsOmitted(area_keys),
                                        EmptyAsOmitted(polygon_features))
    /\ (called = "is_geometry_polygon_without_exceptions" /\ Has(node, "tags")) =>
          verdict = Bool(is_geometry_polygon_without_exceptions(
                             node, EmptyAsOmitted(polygon_features)))
\* area_keys={} with the rule table [building: all]: the element tagged
\* building=yes and highway=steps is no polygon, by the exception
\* highway=steps of the built-in table
C30_Witness ==
    /\ called = "is_geometry_polygon" /\ verdict = "False"
    /\ area_keys = Some(Dict0)
    /\ polygon_features = Some(<<[key |-> "building", polygon |-> "all"]>>)
    /\ Has(node, "tags") /\ ~Has(node, "geometry") /\ ~Has(node, "nodes")
    /\ node.tags = << <<"building", "yes">>, <<"highway", "steps">> >>
====
